---------------------------- MODULE Spec2Model ----------------------------
(***************************************************************************)
(* The two programs of sdl2_vulkan as state machines.                      *)
(*                                                                         *)
(*   main.cpp            SDL + Vulkan set-up, five one-shot GPU steps      *)
(*                       (vertex upload, index upload, BLAS build,        *)
(*                       instance upload, TLAS build), the frame loop and  *)
(*                       the teardown;                                     *)
(*   unnamed/part_000    the earlier program: instance, device             *)
(*                       enumeration, event loop, teardown.                *)
(*                                                                         *)
(* Both are straight-line code around two kinds of loop, so each program   *)
(* is a table of its API calls in program order (one record per call site, *)
(* with its source line, whether it is wrapped in CHECK_VULKAN, the object *)
(* it is about) and pc walks the table.  There is one action per kind of   *)
(* call; every call that returns a result draws it from the environment.   *)
(* The GPU queue runs asynchronously to the host (GpuComplete).            *)
(***************************************************************************)
EXTENDS Integers, Sequences, FiniteSets

\* ------------------------------------------------------------- bounds
\* Iterations of the outer `while (!done)` loop explored.
MaxFrames == 2
\* Events SDL_PollEvent delivers over a run.
MaxEvents == 2
\* Physical devices the instance may enumerate.
MaxDevices == 1
\* Queue families the physical device may report.
MaxFamilies == 1
\* Images the driver may put in the swapchain (at least minImageCount).
MaxImages == 2
MaxMemoryTypes == 3
MaxListed == 3

\* ------------------------------------------------------ program constants
\* create_info.minImageCount
MinImageCount == 2
\* uint32_t graphics_queue_index = -1, the bit pattern 0xFFFFFFFF.  The value is
\* kept as written in the source, the signed reading of the same 32 bits;
\* U32Less compares two such values as the unsigned numbers they are.
NoFamily == -1
\* queue_create_info.queueCount
QueueCount == 1
\* the queueIndex argument of vkGetDeviceQueue
QueueIndex == 0
\* CHECK_VULKAN names FN once as an expression: `VkResult r = FN;`
\* (the other two uses are the stringification #FN).
MacroEvaluations == 1

\* The two property flags main.cpp asks for.
VK_MEMORY_PROPERTY_DEVICE_LOCAL_BIT == 1
VK_MEMORY_PROPERTY_HOST_VISIBLE_BIT == 2

\* sizeof(VkGeometryInstanceNV): float transform[12], two 32-bit words of
\* bit-fields and a uint64_t handle.
SizeofGeometryInstance == 12 * 4 + 4 + 4 + 8
\* info.size of the three staged uploads: sizeof(float) * triangle_verts.size(),
\* sizeof(uint32_t) * triangle_indices.size(), sizeof(VkGeometryInstanceNV).
InfoSize(step) ==
    CASE step = 1 -> 4 * 9
      [] step = 2 -> 4 * 3
      [] OTHER -> SizeofGeometryInstance

VARIABLES
    prog,                   \* which program runs: "main" or "part0"
    pc,                     \* index of the next call in Calls
    i,                      \* counter of the running for-loop
    status,                 \* "running", "thrown", "returned", "crashed"
    exit_code,              \* value returned from main
    last,                   \* index of the call made most recently (0: none)
    r,                      \* what that call returned
    evals,                  \* evaluations of FN by the most recent CHECK_VULKAN
    log,                    \* the calls made so far in the current one-shot step
    window,                 \* SDL window id, 0 for a NULL window
    device_count,           \* what the first vkEnumeratePhysicalDevices wrote: the size of `devices`
    vk_physical_device,     \* index of the selected device, 0 for VK_NULL_HANDLE
    graphics_queue_index,
    device_queues,          \* the VkDeviceQueueCreateInfo the device was created with
    vk_queue,
    pool_family,            \* queueFamilyIndex of the command pool
    upload_mapping,         \* TRUE: points at mapped memory, FALSE: nullptr
    alive,                  \* objects created and not destroyed
    created,                \* objects in creation order
    destroyed,              \* destroy calls in order: [obj, line]
    swapchain_images,       \* the vector of image handles, 0 for VK_NULL_HANDLE
    swapchain_image_views,  \* sizes of the other three std::vectors
    framebuffers,
    command_buffers,
    attachments,            \* view_image[v]: the image view v was made of; fb_view[f]: the view framebuffer f wraps
    cmdbuf,                 \* per command buffer: [state, cmds, one_time, submits]
    pending,                \* submissions the queue has not finished
    fence,                  \* "unsignaled" or "signaled"
    awaiting,               \* one-shot step submitted whose vkQueueWaitIdle has not returned
    queue_ops,              \* every queue operation made: [op, queue]
    listed,                 \* the devices and queue families the driver enumerated, when followed
    query,                  \* one call of get_memory_type_index: its arguments and what it returned
    uploaded,               \* the step submitted or executed last, and what its copy left in its destination
    sem,                    \* per semaphore: operations of this iteration, and outstanding ones
    done,
    event,                  \* the SDL_Event last polled
    polled,                 \* events polled so far
    frame,                  \* iterations of the outer loop started
    img_index,
    it,                     \* what the current (or last) iteration did: [acq, sub, pres]
    after_done              \* frame operations issued while done was true: [acq, sub, pres]

ctl  == <<pc, i, status, exit_code, last, r, evals, log>>
host == <<window, upload_mapping>>
sel  == <<device_count, vk_physical_device, graphics_queue_index, device_queues, vk_queue, pool_family>>
objs == <<alive, created, destroyed>>
vecs == <<swapchain_images, swapchain_image_views, framebuffers, command_buffers>>
gpu  == <<cmdbuf, pending, fence, awaiting, queue_ops>>
lvars == <<done, event, polled, frame, img_index, it, after_done>>
vars == <<prog, query, listed, sem, attachments, uploaded, ctl, host, sel, objs, vecs, gpu, lvars>>

U32Less(a, b) == IF (a < 0) = (b < 0) THEN a < b ELSE b < 0

\* ------------------------------------------------------------ results
VkErrors == {"VK_ERROR_DEVICE_LOST"}
\* Status codes that are not errors (positive VkResult values).
VkStatusCodes == {"VK_NOT_READY", "VK_TIMEOUT", "VK_INCOMPLETE", "VK_SUBOPTIMAL_KHR"}
\* What the call named fn may return: VK_SUCCESS, an error, and the status
\* codes the API defines for that call.
ResultsOf(fn) ==
    {"VK_SUCCESS"} \cup VkErrors \cup
    CASE fn = "vkAcquireNextImageKHR" -> {"VK_NOT_READY", "VK_TIMEOUT", "VK_SUBOPTIMAL_KHR"}
      [] fn = "vkQueuePresentKHR" -> {"VK_SUBOPTIMAL_KHR"}
      [] fn = "vkWaitForFences" -> {"VK_TIMEOUT"}
      [] fn \in {"vkEnumerateInstanceExtensionProperties", "vkEnumeratePhysicalDevices",
                 "vkGetSwapchainImagesKHR"} -> {"VK_INCOMPLETE"}
      [] OTHER -> {}

\* A CHECK_VULKAN that lets the positive status codes through.
CHECK_VULKAN_ErrorsOnly(res) == res \in VkErrors
\* CHECK_VULKAN(FN): TRUE when the macro throws std::runtime_error.
CHECK_VULKAN(res) == res # "VK_SUCCESS"

\* main.cpp 74-135: SDL start-up, the instance and the window surface.
MainInstance ==
    << [line |-> 74, fn |-> "SDL_Init", kind |-> "sdl_init", checked |-> FALSE, obj |-> "", n |-> 0, loop |-> 0, step |-> 0, arg |-> <<>>],
       [line |-> 79, fn |-> "SDL_CreateWindow", kind |-> "sdl_window", checked |-> FALSE, obj |-> "window", n |-> 0, loop |-> 0, step |-> 0, arg |-> <<>>],
       [line |-> 84, fn |-> "vkEnumerateInstanceExtensionProperties", kind |-> "query", checked |-> FALSE, obj |-> "", n |-> 0, loop |-> 0, step |-> 0, arg |-> <<>>],
       [line |-> 87, fn |-> "vkEnumerateInstanceExtensionProperties", kind |-> "query", checked |-> FALSE, obj |-> "", n |-> 0, loop |-> 0, step |-> 0, arg |-> <<>>],
       [line |-> 121, fn |-> "vkCreateInstance", kind |-> "create", checked |-> TRUE, obj |-> "vk_instance", n |-> 0, loop |-> 0, step |-> 0, arg |-> <<>>],
       [line |-> 128, fn |-> "SDL_GetWindowWMInfo", kind |-> "sdl_query", checked |-> FALSE, obj |-> "", n |-> 0, loop |-> 0, step |-> 0, arg |-> <<>>],
       [line |-> 134, fn |-> "vkCreateWin32SurfaceKHR", kind |-> "create", checked |-> TRUE, obj |-> "vk_surface", n |-> 0, loop |-> 0, step |-> 0, arg |-> <<>>] >>

\* main.cpp 137-244: physical device, queue family, logical device and its queue.
MainDevice ==
    << [line |-> 140, fn |-> "vkEnumeratePhysicalDevices", kind |-> "count_devices", checked |-> FALSE, obj |-> "", n |-> 0, loop |-> 0, step |-> 0, arg |-> <<>>],
       [line |-> 143, fn |-> "vkEnumeratePhysicalDevices", kind |-> "select_device", checked |-> FALSE, obj |-> "", n |-> 0, loop |-> 0, step |-> 0, arg |-> <<>>],
       [line |-> 185, fn |-> "vkGetPhysicalDeviceQueueFamilyProperties", kind |-> "select_family", checked |-> FALSE, obj |-> "", n |-> 0, loop |-> 0, step |-> 0, arg |-> <<>>],
       [line |-> 221, fn |-> "vkCreateDevice", kind |-> "create", checked |-> TRUE, obj |-> "vk_device", n |-> 0, loop |-> 0, step |-> 0, arg |-> <<>>],
       [line |-> 224, fn |-> "vkGetDeviceQueue", kind |-> "getqueue", checked |-> FALSE, obj |-> "vk_queue", n |-> 0, loop |-> 0, step |-> 0, arg |-> <<>>],
       [line |-> 228, fn |-> "vkGetPhysicalDeviceMemoryProperties", kind |-> "void", checked |-> FALSE, obj |-> "", n |-> 0, loop |-> 0, step |-> 0, arg |-> <<>>] >>

\* main.cpp 252-302: the swapchain, its images and one view per image.
MainSwapchain ==
    << [line |-> 272, fn |-> "vkCreateSwapchainKHR", kind |-> "create", checked |-> TRUE, obj |-> "vk_swapchain", n |-> 0, loop |-> 0, step |-> 0, arg |-> <<>>],
       [line |-> 276, fn |-> "vkGetSwapchainImagesKHR", kind |-> "get_images", checked |-> FALSE, obj |-> "", n |-> 0, loop |-> 0, step |-> 0, arg |-> <<>>],
       [line |-> 278, fn |-> "vkGetSwapchainImagesKHR", kind |-> "fill_images", checked |-> FALSE, obj |-> "", n |-> 0, loop |-> 0, step |-> 0, arg |-> <<>>],
       [line |-> 280, fn |-> "for img : swapchain_images", kind |-> "for", checked |-> FALSE, obj |-> "", n |-> 0, loop |-> 1, step |-> 0, arg |-> <<>>],
       [line |-> 299, fn |-> "vkCreateImageView", kind |-> "create", checked |-> TRUE, obj |-> "swapchain_image_views", n |-> 0, loop |-> 1, step |-> 0, arg |-> <<>>] >>

\* main.cpp 305-444: shader modules, layout, render pass and the graphics pipeline.
MainPipeline ==
    << [line |-> 315, fn |-> "vkCreateShaderModule", kind |-> "create", checked |-> TRUE, obj |-> "vertex_shader_module", n |-> 0, loop |-> 0, step |-> 0, arg |-> <<>>],
       [line |-> 327, fn |-> "vkCreateShaderModule", kind |-> "create", checked |-> TRUE, obj |-> "fragment_shader_module", n |-> 0, loop |-> 0, step |-> 0, arg |-> <<>>],
       [line |-> 398, fn |-> "vkCreatePipelineLayout", kind |-> "create", checked |-> TRUE, obj |-> "vk_pipeline_layout", n |-> 0, loop |-> 0, step |-> 0, arg |-> <<>>],
       [line |-> 425, fn |-> "vkCreateRenderPass", kind |-> "create", checked |-> TRUE, obj |-> "vk_render_pass", n |-> 0, loop |-> 0, step |-> 0, arg |-> <<>>],
       [line |-> 440, fn |-> "vkCreateGraphicsPipelines", kind |-> "create", checked |-> TRUE, obj |-> "vk_pipeline", n |-> 0, loop |-> 0, step |-> 0, arg |-> <<>>],
       [line |-> 442, fn |-> "vkDestroyShaderModule", kind |-> "destroy", checked |-> FALSE, obj |-> "vertex_shader_module", n |-> 0, loop |-> 0, step |-> 0, arg |-> <<>>],
       [line |-> 443, fn |-> "vkDestroyShaderModule", kind |-> "destroy", checked |-> FALSE, obj |-> "fragment_shader_module", n |-> 0, loop |-> 0, step |-> 0, arg |-> <<>>] >>

\* main.cpp 446-480: one framebuffer per view, the command pool, one command buffer per framebuffer.
MainFramebuffers ==
    << [line |-> 448, fn |-> "for v : swapchain_image_views", kind |-> "for", checked |-> FALSE, obj |-> "", n |-> 0, loop |-> 2, step |-> 0, arg |-> <<>>],
       [line |-> 459, fn |-> "vkCreateFramebuffer", kind |-> "create", checked |-> TRUE, obj |-> "framebuffers", n |-> 0, loop |-> 2, step |-> 0, arg |-> <<>>],
       [line |-> 469, fn |-> "vkCreateCommandPool", kind |-> "create", checked |-> TRUE, obj |-> "vk_command_pool", n |-> 0, loop |-> 0, step |-> 0, arg |-> <<>>],
       [line |-> 479, fn |-> "vkAllocateCommandBuffers", kind |-> "alloc_cmdbufs", checked |-> TRUE, obj |-> "command_buffers", n |-> 0, loop |-> 0, step |-> 0, arg |-> <<>>] >>

\* main.cpp 482-534: one-shot step 1, the staged upload of triangle_verts: buffers, memory, the
\* host copy into the staging buffer and the recorded copy command.
VertexUpload ==
    << [line |-> 493, fn |-> "vkCreateBuffer", kind |-> "create", checked |-> TRUE, obj |-> "upload_buffer", n |-> 1, loop |-> 0, step |-> 1, arg |-> <<InfoSize(1)>>],
       [line |-> 496, fn |-> "vkCreateBuffer", kind |-> "create", checked |-> TRUE, obj |-> "vertex_buffer", n |-> 0, loop |-> 0, step |-> 1, arg |-> <<InfoSize(1)>>],
       [line |-> 499, fn |-> "vkGetBufferMemoryRequirements", kind |-> "void", checked |-> FALSE, obj |-> "vertex_buffer", n |-> 0, loop |-> 0, step |-> 1, arg |-> <<>>],
       [line |-> 505, fn |-> "get_memory_type_index", kind |-> "memtype", checked |-> FALSE, obj |-> "", n |-> 0, loop |-> 0, step |-> 1, arg |-> <<VK_MEMORY_PROPERTY_HOST_VISIBLE_BIT>>],
       [line |-> 508, fn |-> "vkAllocateMemory", kind |-> "create", checked |-> TRUE, obj |-> "upload_mem", n |-> 1, loop |-> 0, step |-> 1, arg |-> <<>>],
       [line |-> 509, fn |-> "vkBindBufferMemory", kind |-> "bind", checked |-> FALSE, obj |-> "upload_buffer", n |-> 1, loop |-> 0, step |-> 1, arg |-> <<>>],
       [line |-> 511, fn |-> "get_memory_type_index", kind |-> "memtype", checked |-> FALSE, obj |-> "", n |-> 0, loop |-> 0, step |-> 1, arg |-> <<VK_MEMORY_PROPERTY_DEVICE_LOCAL_BIT>>],
       [line |-> 513, fn |-> "vkAllocateMemory", kind |-> "create", checked |-> TRUE, obj |-> "vertex_mem", n |-> 0, loop |-> 0, step |-> 1, arg |-> <<>>],
       [line |-> 514, fn |-> "vkBindBufferMemory", kind |-> "bind", checked |-> FALSE, obj |-> "vertex_buffer", n |-> 0, loop |-> 0, step |-> 1, arg |-> <<>>],
       [line |-> 518, fn |-> "vkMapMemory", kind |-> "map", checked |-> FALSE, obj |-> "upload_mem", n |-> 1, loop |-> 0, step |-> 1, arg |-> <<InfoSize(1)>>],
       [line |-> 519, fn |-> "memcpy", kind |-> "memcpy", checked |-> FALSE, obj |-> "upload_mem", n |-> 1, loop |-> 0, step |-> 1, arg |-> <<"triangle_verts", InfoSize(1)>>],
       [line |-> 520, fn |-> "vkUnmapMemory", kind |-> "void", checked |-> FALSE, obj |-> "upload_mem", n |-> 1, loop |-> 0, step |-> 1, arg |-> <<>>],
       [line |-> 528, fn |-> "vkBeginCommandBuffer", kind |-> "begin", checked |-> TRUE, obj |-> "", n |-> 0, loop |-> 0, step |-> 1, arg |-> <<TRUE>>],
       [line |-> 532, fn |-> "vkCmdCopyBuffer", kind |-> "cmd", checked |-> FALSE, obj |-> "", n |-> 0, loop |-> 0, step |-> 1, arg |-> <<"upload_buffer", "vertex_buffer", InfoSize(1)>>],
       [line |-> 534, fn |-> "vkEndCommandBuffer", kind |-> "end", checked |-> TRUE, obj |-> "", n |-> 0, loop |-> 0, step |-> 1, arg |-> <<>>] >>

\* main.cpp 536-549: step 1 is submitted and waited for, then the pool is reset and the staging
\* buffer released.
VertexUploadSubmit ==
    << [line |-> 541, fn |-> "vkQueueSubmit", kind |-> "submit", checked |-> TRUE, obj |-> "vk_queue", n |-> 0, loop |-> 0, step |-> 1, arg |-> <<>>],
       [line |-> 542, fn |-> "vkQueueWaitIdle", kind |-> "waitidle", checked |-> FALSE, obj |-> "vk_queue", n |-> 0, loop |-> 0, step |-> 1, arg |-> <<>>],
       [line |-> 546, fn |-> "vkResetCommandPool", kind |-> "resetpool", checked |-> FALSE, obj |-> "vk_command_pool", n |-> 0, loop |-> 0, step |-> 1, arg |-> <<>>],
       [line |-> 548, fn |-> "vkDestroyBuffer", kind |-> "destroy", checked |-> FALSE, obj |-> "upload_buffer", n |-> 1, loop |-> 0, step |-> 1, arg |-> <<>>],
       [line |-> 549, fn |-> "vkFreeMemory", kind |-> "destroy", checked |-> FALSE, obj |-> "upload_mem", n |-> 1, loop |-> 0, step |-> 1, arg |-> <<>>] >>

\* main.cpp 552-603: one-shot step 2, the staged upload of triangle_indices.
IndexUpload ==
    << [line |-> 562, fn |-> "vkCreateBuffer", kind |-> "create", checked |-> TRUE, obj |-> "upload_buffer", n |-> 2, loop |-> 0, step |-> 2, arg |-> <<InfoSize(2)>>],
       [line |-> 565, fn |-> "vkCreateBuffer", kind |-> "create", checked |-> TRUE, obj |-> "index_buffer", n |-> 0, loop |-> 0, step |-> 2, arg |-> <<InfoSize(2)>>],
       [line |-> 568, fn |-> "vkGetBufferMemoryRequirements", kind |-> "void", checked |-> FALSE, obj |-> "index_buffer", n |-> 0, loop |-> 0, step |-> 2, arg |-> <<>>],
       [line |-> 574, fn |-> "get_memory_type_index", kind |-> "memtype", checked |-> FALSE, obj |-> "", n |-> 0, loop |-> 0, step |-> 2, arg |-> <<VK_MEMORY_PROPERTY_HOST_VISIBLE_BIT>>],
       [line |-> 577, fn |-> "vkAllocateMemory", kind |-> "create", checked |-> TRUE, obj |-> "upload_mem", n |-> 2, loop |-> 0, step |-> 2, arg |-> <<>>],
       [line |-> 578, fn |-> "vkBindBufferMemory", kind |-> "bind", checked |-> FALSE, obj |-> "upload_buffer", n |-> 2, loop |-> 0, step |-> 2, arg |-> <<>>],
       [line |-> 580, fn |-> "get_memory_type_index", kind |-> "memtype", checked |-> FALSE, obj |-> "", n |-> 0, loop |-> 0, step |-> 2, arg |-> <<VK_MEMORY_PROPERTY_DEVICE_LOCAL_BIT>>],
       [line |-> 582, fn |-> "vkAllocateMemory", kind |-> "create", checked |-> TRUE, obj |-> "index_mem", n |-> 0, loop |-> 0, step |-> 2, arg |-> <<>>],
       [line |-> 583, fn |-> "vkBindBufferMemory", kind |-> "bind", checked |-> FALSE, obj |-> "index_buffer", n |-> 0, loop |-> 0, step |-> 2, arg |-> <<>>],
       [line |-> 587, fn |-> "vkMapMemory", kind |-> "map", checked |-> FALSE, obj |-> "upload_mem", n |-> 2, loop |-> 0, step |-> 2, arg |-> <<InfoSize(2)>>],
       [line |-> 588, fn |-> "memcpy", kind |-> "memcpy", checked |-> FALSE, obj |-> "upload_mem", n |-> 2, loop |-> 0, step |-> 2, arg |-> <<"triangle_indices", InfoSize(2)>>],
       [line |-> 589, fn |-> "vkUnmapMemory", kind |-> "void", checked |-> FALSE, obj |-> "upload_mem", n |-> 2, loop |-> 0, step |-> 2, arg |-> <<>>],
       [line |-> 597, fn |-> "vkBeginCommandBuffer", kind |-> "begin", checked |-> TRUE, obj |-> "", n |-> 0, loop |-> 0, step |-> 2, arg |-> <<TRUE>>],
       [line |-> 601, fn |-> "vkCmdCopyBuffer", kind |-> "cmd", checked |-> FALSE, obj |-> "", n |-> 0, loop |-> 0, step |-> 2, arg |-> <<"upload_buffer", "index_buffer", InfoSize(2)>>],
       [line |-> 603, fn |-> "vkEndCommandBuffer", kind |-> "end", checked |-> TRUE, obj |-> "", n |-> 0, loop |-> 0, step |-> 2, arg |-> <<>>] >>

\* main.cpp 605-618: step 2 is submitted and waited for, pool reset, staging released.
IndexUploadSubmit ==
    << [line |-> 610, fn |-> "vkQueueSubmit", kind |-> "submit", checked |-> TRUE, obj |-> "vk_queue", n |-> 0, loop |-> 0, step |-> 2, arg |-> <<>>],
       [line |-> 611, fn |-> "vkQueueWaitIdle", kind |-> "waitidle", checked |-> FALSE, obj |-> "vk_queue", n |-> 0, loop |-> 0, step |-> 2, arg |-> <<>>],
       [line |-> 615, fn |-> "vkResetCommandPool", kind |-> "resetpool", checked |-> FALSE, obj |-> "vk_command_pool", n |-> 0, loop |-> 0, step |-> 2, arg |-> <<>>],
       [line |-> 617, fn |-> "vkDestroyBuffer", kind |-> "destroy", checked |-> FALSE, obj |-> "upload_buffer", n |-> 2, loop |-> 0, step |-> 2, arg |-> <<>>],
       [line |-> 618, fn |-> "vkFreeMemory", kind |-> "destroy", checked |-> FALSE, obj |-> "upload_mem", n |-> 2, loop |-> 0, step |-> 2, arg |-> <<>>] >>

\* main.cpp 621-715: one-shot step 3, the bottom-level acceleration structure: object, result and
\* scratch memory, the recorded build.
BlasBuild ==
    << [line |-> 656, fn |-> "vkCreateAccelerationStructure", kind |-> "create", checked |-> TRUE, obj |-> "blas", n |-> 0, loop |-> 0, step |-> 3, arg |-> <<>>],
       [line |-> 672, fn |-> "get_memory_type_index", kind |-> "memtype", checked |-> FALSE, obj |-> "", n |-> 0, loop |-> 0, step |-> 3, arg |-> <<VK_MEMORY_PROPERTY_DEVICE_LOCAL_BIT>>],
       [line |-> 674, fn |-> "vkAllocateMemory", kind |-> "create", checked |-> TRUE, obj |-> "blas_mem", n |-> 0, loop |-> 0, step |-> 3, arg |-> <<>>],
       [line |-> 683, fn |-> "get_memory_type_index", kind |-> "memtype", checked |-> FALSE, obj |-> "", n |-> 0, loop |-> 0, step |-> 3, arg |-> <<VK_MEMORY_PROPERTY_DEVICE_LOCAL_BIT>>],
       [line |-> 686, fn |-> "vkAllocateMemory", kind |-> "create", checked |-> TRUE, obj |-> "scratch_mem", n |-> 3, loop |-> 0, step |-> 3, arg |-> <<>>],
       [line |-> 696, fn |-> "vkCreateBuffer", kind |-> "create", checked |-> TRUE, obj |-> "scratch_buffer", n |-> 3, loop |-> 0, step |-> 3, arg |-> <<>>],
       [line |-> 697, fn |-> "vkBindBufferMemory", kind |-> "bind", checked |-> FALSE, obj |-> "scratch_buffer", n |-> 3, loop |-> 0, step |-> 3, arg |-> <<>>],
       [line |-> 703, fn |-> "vkBindAccelerationStructureMemory", kind |-> "bind", checked |-> TRUE, obj |-> "blas", n |-> 0, loop |-> 0, step |-> 3, arg |-> <<>>],
       [line |-> 711, fn |-> "vkBeginCommandBuffer", kind |-> "begin", checked |-> TRUE, obj |-> "", n |-> 0, loop |-> 0, step |-> 3, arg |-> <<TRUE>>],
       [line |-> 713, fn |-> "vkCmdBuildAccelerationStructure", kind |-> "cmd", checked |-> FALSE, obj |-> "", n |-> 0, loop |-> 0, step |-> 3, arg |-> <<"vertex_buffer", "blas">>],
       [line |-> 715, fn |-> "vkEndCommandBuffer", kind |-> "end", checked |-> TRUE, obj |-> "", n |-> 0, loop |-> 0, step |-> 3, arg |-> <<>>] >>

\* Step 3 with the pool reset moved in front of the wait.
BlasBuildSubmit_ResetBeforeWait ==
    << [line |-> 722, fn |-> "vkQueueSubmit", kind |-> "submit", checked |-> TRUE, obj |-> "vk_queue", n |-> 0, loop |-> 0, step |-> 3, arg |-> <<>>],
       [line |-> 729, fn |-> "vkResetCommandPool", kind |-> "resetpool", checked |-> FALSE, obj |-> "vk_command_pool", n |-> 0, loop |-> 0, step |-> 3, arg |-> <<>>],
       [line |-> 723, fn |-> "vkQueueWaitIdle", kind |-> "waitidle", checked |-> FALSE, obj |-> "vk_queue", n |-> 0, loop |-> 0, step |-> 3, arg |-> <<>>],
       [line |-> 725, fn |-> "vkGetAccelerationStructureHandle", kind |-> "gethandle", checked |-> TRUE, obj |-> "blas", n |-> 0, loop |-> 0, step |-> 3, arg |-> <<>>],
       [line |-> 733, fn |-> "vkDestroyBuffer", kind |-> "destroy", checked |-> FALSE, obj |-> "scratch_buffer", n |-> 3, loop |-> 0, step |-> 3, arg |-> <<>>],
       [line |-> 734, fn |-> "vkFreeMemory", kind |-> "destroy", checked |-> FALSE, obj |-> "scratch_mem", n |-> 3, loop |-> 0, step |-> 3, arg |-> <<>>] >>

\* main.cpp 717-734: step 3 is submitted and waited for, the handle read, pool reset, scratch released.
BlasBuildSubmit ==
    << [line |-> 722, fn |-> "vkQueueSubmit", kind |-> "submit", checked |-> TRUE, obj |-> "vk_queue", n |-> 0, loop |-> 0, step |-> 3, arg |-> <<>>],
       [line |-> 723, fn |-> "vkQueueWaitIdle", kind |-> "waitidle", checked |-> FALSE, obj |-> "vk_queue", n |-> 0, loop |-> 0, step |-> 3, arg |-> <<>>],
       [line |-> 725, fn |-> "vkGetAccelerationStructureHandle", kind |-> "gethandle", checked |-> TRUE, obj |-> "blas", n |-> 0, loop |-> 0, step |-> 3, arg |-> <<>>],
       [line |-> 729, fn |-> "vkResetCommandPool", kind |-> "resetpool", checked |-> FALSE, obj |-> "vk_command_pool", n |-> 0, loop |-> 0, step |-> 3, arg |-> <<>>],
       [line |-> 733, fn |-> "vkDestroyBuffer", kind |-> "destroy", checked |-> FALSE, obj |-> "scratch_buffer", n |-> 3, loop |-> 0, step |-> 3, arg |-> <<>>],
       [line |-> 734, fn |-> "vkFreeMemory", kind |-> "destroy", checked |-> FALSE, obj |-> "scratch_mem", n |-> 3, loop |-> 0, step |-> 3, arg |-> <<>>] >>

\* main.cpp 737-800: one-shot step 4, the staged upload of the instance record.
InstanceUpload ==
    << [line |-> 748, fn |-> "vkCreateBuffer", kind |-> "create", checked |-> TRUE, obj |-> "upload_buffer", n |-> 4, loop |-> 0, step |-> 4, arg |-> <<InfoSize(4)>>],
       [line |-> 751, fn |-> "vkCreateBuffer", kind |-> "create", checked |-> TRUE, obj |-> "instance_buffer", n |-> 0, loop |-> 0, step |-> 4, arg |-> <<InfoSize(4)>>],
       [line |-> 754, fn |-> "vkGetBufferMemoryRequirements", kind |-> "void", checked |-> FALSE, obj |-> "instance_buffer", n |-> 0, loop |-> 0, step |-> 4, arg |-> <<>>],
       [line |-> 760, fn |-> "get_memory_type_index", kind |-> "memtype", checked |-> FALSE, obj |-> "", n |-> 0, loop |-> 0, step |-> 4, arg |-> <<VK_MEMORY_PROPERTY_HOST_VISIBLE_BIT>>],
       [line |-> 763, fn |-> "vkAllocateMemory", kind |-> "create", checked |-> TRUE, obj |-> "upload_mem", n |-> 4, loop |-> 0, step |-> 4, arg |-> <<>>],
       [line |-> 764, fn |-> "vkBindBufferMemory", kind |-> "bind", checked |-> FALSE, obj |-> "upload_buffer", n |-> 4, loop |-> 0, step |-> 4, arg |-> <<>>],
       [line |-> 766, fn |-> "get_memory_type_index", kind |-> "memtype", checked |-> FALSE, obj |-> "", n |-> 0, loop |-> 0, step |-> 4, arg |-> <<VK_MEMORY_PROPERTY_DEVICE_LOCAL_BIT>>],
       [line |-> 768, fn |-> "vkAllocateMemory", kind |-> "create", checked |-> TRUE, obj |-> "instance_mem", n |-> 0, loop |-> 0, step |-> 4, arg |-> <<>>],
       [line |-> 769, fn |-> "vkBindBufferMemory", kind |-> "bind", checked |-> FALSE, obj |-> "instance_buffer", n |-> 0, loop |-> 0, step |-> 4, arg |-> <<>>],
       [line |-> 773, fn |-> "vkMapMemory", kind |-> "map", checked |-> FALSE, obj |-> "upload_mem", n |-> 4, loop |-> 0, step |-> 4, arg |-> <<InfoSize(4)>>],
       [line |-> 774, fn |-> "memset", kind |-> "memcpy", checked |-> FALSE, obj |-> "upload_mem", n |-> 4, loop |-> 0, step |-> 4, arg |-> <<"instance", SizeofGeometryInstance>>],
       [line |-> 786, fn |-> "vkUnmapMemory", kind |-> "void", checked |-> FALSE, obj |-> "upload_mem", n |-> 4, loop |-> 0, step |-> 4, arg |-> <<>>],
       [line |-> 794, fn |-> "vkBeginCommandBuffer", kind |-> "begin", checked |-> TRUE, obj |-> "", n |-> 0, loop |-> 0, step |-> 4, arg |-> <<TRUE>>],
       [line |-> 798, fn |-> "vkCmdCopyBuffer", kind |-> "cmd", checked |-> FALSE, obj |-> "", n |-> 0, loop |-> 0, step |-> 4, arg |-> <<"upload_buffer", "instance_buffer", InfoSize(4)>>],
       [line |-> 800, fn |-> "vkEndCommandBuffer", kind |-> "end", checked |-> TRUE, obj |-> "", n |-> 0, loop |-> 0, step |-> 4, arg |-> <<>>] >>

\* main.cpp 802-815: step 4 is submitted and waited for, pool reset, staging released.
InstanceUploadSubmit ==
    << [line |-> 807, fn |-> "vkQueueSubmit", kind |-> "submit", checked |-> TRUE, obj |-> "vk_queue", n |-> 0, loop |-> 0, step |-> 4, arg |-> <<>>],
       [line |-> 808, fn |-> "vkQueueWaitIdle", kind |-> "waitidle", checked |-> FALSE, obj |-> "vk_queue", n |-> 0, loop |-> 0, step |-> 4, arg |-> <<>>],
       [line |-> 812, fn |-> "vkResetCommandPool", kind |-> "resetpool", checked |-> FALSE, obj |-> "vk_command_pool", n |-> 0, loop |-> 0, step |-> 4, arg |-> <<>>],
       [line |-> 814, fn |-> "vkDestroyBuffer", kind |-> "destroy", checked |-> FALSE, obj |-> "upload_buffer", n |-> 4, loop |-> 0, step |-> 4, arg |-> <<>>],
       [line |-> 815, fn |-> "vkFreeMemory", kind |-> "destroy", checked |-> FALSE, obj |-> "upload_mem", n |-> 4, loop |-> 0, step |-> 4, arg |-> <<>>] >>

\* main.cpp 818-891: one-shot step 5, the top-level acceleration structure.
TlasBuild ==
    << [line |-> 832, fn |-> "vkCreateAccelerationStructure", kind |-> "create", checked |-> TRUE, obj |-> "tlas", n |-> 0, loop |-> 0, step |-> 5, arg |-> <<>>],
       [line |-> 848, fn |-> "get_memory_type_index", kind |-> "memtype", checked |-> FALSE, obj |-> "", n |-> 0, loop |-> 0, step |-> 5, arg |-> <<VK_MEMORY_PROPERTY_DEVICE_LOCAL_BIT>>],
       [line |-> 850, fn |-> "vkAllocateMemory", kind |-> "create", checked |-> TRUE, obj |-> "tlas_mem", n |-> 0, loop |-> 0, step |-> 5, arg |-> <<>>],
       [line |-> 859, fn |-> "get_memory_type_index", kind |-> "memtype", checked |-> FALSE, obj |-> "", n |-> 0, loop |-> 0, step |-> 5, arg |-> <<VK_MEMORY_PROPERTY_DEVICE_LOCAL_BIT>>],
       [line |-> 862, fn |-> "vkAllocateMemory", kind |-> "create", checked |-> TRUE, obj |-> "scratch_mem", n |-> 5, loop |-> 0, step |-> 5, arg |-> <<>>],
       [line |-> 872, fn |-> "vkCreateBuffer", kind |-> "create", checked |-> TRUE, obj |-> "scratch_buffer", n |-> 5, loop |-> 0, step |-> 5, arg |-> <<>>],
       [line |-> 873, fn |-> "vkBindBufferMemory", kind |-> "bind", checked |-> FALSE, obj |-> "scratch_buffer", n |-> 5, loop |-> 0, step |-> 5, arg |-> <<>>],
       [line |-> 879, fn |-> "vkBindAccelerationStructureMemory", kind |-> "bind", checked |-> TRUE, obj |-> "tlas", n |-> 0, loop |-> 0, step |-> 5, arg |-> <<>>],
       [line |-> 887, fn |-> "vkBeginCommandBuffer", kind |-> "begin", checked |-> TRUE, obj |-> "", n |-> 0, loop |-> 0, step |-> 5, arg |-> <<TRUE>>],
       [line |-> 889, fn |-> "vkCmdBuildAccelerationStructure", kind |-> "cmd", checked |-> FALSE, obj |-> "", n |-> 0, loop |-> 0, step |-> 5, arg |-> <<"instance_buffer", "tlas">>],
       [line |-> 891, fn |-> "vkEndCommandBuffer", kind |-> "end", checked |-> TRUE, obj |-> "", n |-> 0, loop |-> 0, step |-> 5, arg |-> <<>>] >>

\* Step 5 with the handle read before the queue is waited for.
TlasBuildSubmit_HandleBeforeWait ==
    << [line |-> 898, fn |-> "vkQueueSubmit", kind |-> "submit", checked |-> TRUE, obj |-> "vk_queue", n |-> 0, loop |-> 0, step |-> 5, arg |-> <<>>],
       [line |-> 901, fn |-> "vkGetAccelerationStructureHandle", kind |-> "gethandle", checked |-> TRUE, obj |-> "tlas", n |-> 0, loop |-> 0, step |-> 5, arg |-> <<>>],
       [line |-> 899, fn |-> "vkQueueWaitIdle", kind |-> "waitidle", checked |-> FALSE, obj |-> "vk_queue", n |-> 0, loop |-> 0, step |-> 5, arg |-> <<>>],
       [line |-> 905, fn |-> "vkResetCommandPool", kind |-> "resetpool", checked |-> FALSE, obj |-> "vk_command_pool", n |-> 0, loop |-> 0, step |-> 5, arg |-> <<>>],
       [line |-> 909, fn |-> "vkDestroyBuffer", kind |-> "destroy", checked |-> FALSE, obj |-> "scratch_buffer", n |-> 5, loop |-> 0, step |-> 5, arg |-> <<>>],
       [line |-> 910, fn |-> "vkFreeMemory", kind |-> "destroy", checked |-> FALSE, obj |-> "scratch_mem", n |-> 5, loop |-> 0, step |-> 5, arg |-> <<>>] >>

\* main.cpp 893-910: step 5 is submitted and waited for, the handle read, pool reset, scratch released.
TlasBuildSubmit ==
    << [line |-> 898, fn |-> "vkQueueSubmit", kind |-> "submit", checked |-> TRUE, obj |-> "vk_queue", n |-> 0, loop |-> 0, step |-> 5, arg |-> <<>>],
       [line |-> 899, fn |-> "vkQueueWaitIdle", kind |-> "waitidle", checked |-> FALSE, obj |-> "vk_queue", n |-> 0, loop |-> 0, step |-> 5, arg |-> <<>>],
       [line |-> 901, fn |-> "vkGetAccelerationStructureHandle", kind |-> "gethandle", checked |-> TRUE, obj |-> "tlas", n |-> 0, loop |-> 0, step |-> 5, arg |-> <<>>],
       [line |-> 905, fn |-> "vkResetCommandPool", kind |-> "resetpool", checked |-> FALSE, obj |-> "vk_command_pool", n |-> 0, loop |-> 0, step |-> 5, arg |-> <<>>],
       [line |-> 909, fn |-> "vkDestroyBuffer", kind |-> "destroy", checked |-> FALSE, obj |-> "scratch_buffer", n |-> 5, loop |-> 0, step |-> 5, arg |-> <<>>],
       [line |-> 910, fn |-> "vkFreeMemory", kind |-> "destroy", checked |-> FALSE, obj |-> "scratch_mem", n |-> 5, loop |-> 0, step |-> 5, arg |-> <<>>] >>

\* main.cpp 913-944: the render commands, recorded once into every command buffer.
RecordRender ==
    << [line |-> 915, fn |-> "for i < command_buffers.size()", kind |-> "for", checked |-> FALSE, obj |-> "", n |-> 0, loop |-> 3, step |-> 0, arg |-> <<>>],
       [line |-> 920, fn |-> "vkBeginCommandBuffer", kind |-> "begin", checked |-> TRUE, obj |-> "", n |-> 0, loop |-> 3, step |-> 0, arg |-> <<FALSE>>],
       [line |-> 934, fn |-> "vkCmdBeginRenderPass", kind |-> "cmd", checked |-> FALSE, obj |-> "", n |-> 0, loop |-> 3, step |-> 0, arg |-> <<"framebuffers">>],
       [line |-> 936, fn |-> "vkCmdBindPipeline", kind |-> "cmd", checked |-> FALSE, obj |-> "", n |-> 0, loop |-> 3, step |-> 0, arg |-> <<"vk_pipeline">>],
       [line |-> 939, fn |-> "vkCmdDraw", kind |-> "cmd", checked |-> FALSE, obj |-> "", n |-> 0, loop |-> 3, step |-> 0, arg |-> <<3, 1, 0, 0>>],
       [line |-> 941, fn |-> "vkCmdEndRenderPass", kind |-> "cmd", checked |-> FALSE, obj |-> "", n |-> 0, loop |-> 3, step |-> 0, arg |-> <<>>],
       [line |-> 943, fn |-> "vkEndCommandBuffer", kind |-> "end", checked |-> TRUE, obj |-> "", n |-> 0, loop |-> 3, step |-> 0, arg |-> <<>>] >>

\* main.cpp 946-962: the two semaphores and the fence.
SyncObjects ==
    << [line |-> 952, fn |-> "vkCreateSemaphore", kind |-> "create", checked |-> TRUE, obj |-> "img_avail_semaphore", n |-> 0, loop |-> 0, step |-> 0, arg |-> <<>>],
       [line |-> 953, fn |-> "vkCreateSemaphore", kind |-> "create", checked |-> TRUE, obj |-> "render_finished_semaphore", n |-> 0, loop |-> 0, step |-> 0, arg |-> <<>>],
       [line |-> 961, fn |-> "vkCreateFence", kind |-> "create", checked |-> TRUE, obj |-> "vk_fence", n |-> 0, loop |-> 0, step |-> 0, arg |-> <<>>] >>

\* A frame loop that resets the command pool at the end of each frame.
FrameLoop_ResetEachFrame ==
    << [line |-> 966, fn |-> "while (!done)", kind |-> "while", checked |-> FALSE, obj |-> "", n |-> 0, loop |-> 9, step |-> 0, arg |-> <<>>],
       [line |-> 968, fn |-> "SDL_PollEvent", kind |-> "poll", checked |-> FALSE, obj |-> "", n |-> 0, loop |-> 9, step |-> 0, arg |-> <<>>],
       [line |-> 983, fn |-> "vkAcquireNextImageKHR", kind |-> "acquire", checked |-> TRUE, obj |-> "vk_swapchain", n |-> 0, loop |-> 9, step |-> 0, arg |-> <<>>],
       [line |-> 992, fn |-> "vkResetFences", kind |-> "resetfences", checked |-> TRUE, obj |-> "vk_fence", n |-> 0, loop |-> 9, step |-> 0, arg |-> <<>>],
       [line |-> 1003, fn |-> "vkQueueSubmit", kind |-> "framesubmit", checked |-> TRUE, obj |-> "vk_queue", n |-> 0, loop |-> 9, step |-> 0, arg |-> <<>>],
       [line |-> 1014, fn |-> "vkQueuePresentKHR", kind |-> "present", checked |-> TRUE, obj |-> "vk_queue", n |-> 0, loop |-> 9, step |-> 0, arg |-> <<>>],
       [line |-> 1017, fn |-> "vkWaitForFences", kind |-> "waitfences", checked |-> TRUE, obj |-> "vk_fence", n |-> 0, loop |-> 9, step |-> 0, arg |-> <<>>],
       [line |-> 1017, fn |-> "vkResetCommandPool", kind |-> "resetpool", checked |-> FALSE, obj |-> "vk_command_pool", n |-> 0, loop |-> 9, step |-> 0, arg |-> <<>>] >>

\* main.cpp 965-1018: the frame loop.
FrameLoop ==
    << [line |-> 966, fn |-> "while (!done)", kind |-> "while", checked |-> FALSE, obj |-> "", n |-> 0, loop |-> 9, step |-> 0, arg |-> <<>>],
       [line |-> 968, fn |-> "SDL_PollEvent", kind |-> "poll", checked |-> FALSE, obj |-> "", n |-> 0, loop |-> 9, step |-> 0, arg |-> <<>>],
       [line |-> 983, fn |-> "vkAcquireNextImageKHR", kind |-> "acquire", checked |-> TRUE, obj |-> "vk_swapchain", n |-> 0, loop |-> 9, step |-> 0, arg |-> <<>>],
       [line |-> 992, fn |-> "vkResetFences", kind |-> "resetfences", checked |-> TRUE, obj |-> "vk_fence", n |-> 0, loop |-> 9, step |-> 0, arg |-> <<>>],
       [line |-> 1003, fn |-> "vkQueueSubmit", kind |-> "framesubmit", checked |-> TRUE, obj |-> "vk_queue", n |-> 0, loop |-> 9, step |-> 0, arg |-> <<>>],
       [line |-> 1014, fn |-> "vkQueuePresentKHR", kind |-> "present", checked |-> TRUE, obj |-> "vk_queue", n |-> 0, loop |-> 9, step |-> 0, arg |-> <<>>],
       [line |-> 1017, fn |-> "vkWaitForFences", kind |-> "waitfences", checked |-> TRUE, obj |-> "vk_fence", n |-> 0, loop |-> 9, step |-> 0, arg |-> <<>>] >>

\* main.cpp 1020-1022: teardown of the semaphores and the fence.
TeardownSync ==
    << [line |-> 1020, fn |-> "vkDestroySemaphore", kind |-> "destroy", checked |-> FALSE, obj |-> "img_avail_semaphore", n |-> 0, loop |-> 0, step |-> 0, arg |-> <<>>],
       [line |-> 1021, fn |-> "vkDestroySemaphore", kind |-> "destroy", checked |-> FALSE, obj |-> "render_finished_semaphore", n |-> 0, loop |-> 0, step |-> 0, arg |-> <<>>],
       [line |-> 1022, fn |-> "vkDestroyFence", kind |-> "destroy", checked |-> FALSE, obj |-> "vk_fence", n |-> 0, loop |-> 0, step |-> 0, arg |-> <<>>] >>

\* main.cpp 1023-1027: teardown of the command pool, the swapchain and the framebuffers.
TeardownSwapchain ==
    << [line |-> 1023, fn |-> "vkDestroyCommandPool", kind |-> "destroy", checked |-> FALSE, obj |-> "vk_command_pool", n |-> 0, loop |-> 0, step |-> 0, arg |-> <<>>],
       [line |-> 1024, fn |-> "vkDestroySwapchainKHR", kind |-> "destroy", checked |-> FALSE, obj |-> "vk_swapchain", n |-> 0, loop |-> 0, step |-> 0, arg |-> <<>>],
       [line |-> 1025, fn |-> "for fb : framebuffers", kind |-> "for", checked |-> FALSE, obj |-> "", n |-> 0, loop |-> 4, step |-> 0, arg |-> <<>>],
       [line |-> 1026, fn |-> "vkDestroyFramebuffer", kind |-> "destroy", checked |-> FALSE, obj |-> "framebuffers", n |-> 0, loop |-> 4, step |-> 0, arg |-> <<>>] >>

\* The pipeline objects destroyed in the order they were created.
TeardownPipeline_CreationOrder ==
    << [line |-> 1030, fn |-> "vkDestroyPipelineLayout", kind |-> "destroy", checked |-> FALSE, obj |-> "vk_pipeline_layout", n |-> 0, loop |-> 0, step |-> 0, arg |-> <<>>],
       [line |-> 1029, fn |-> "vkDestroyRenderPass", kind |-> "destroy", checked |-> FALSE, obj |-> "vk_render_pass", n |-> 0, loop |-> 0, step |-> 0, arg |-> <<>>],
       [line |-> 1028, fn |-> "vkDestroyPipeline", kind |-> "destroy", checked |-> FALSE, obj |-> "vk_pipeline", n |-> 0, loop |-> 0, step |-> 0, arg |-> <<>>] >>

\* main.cpp 1028-1030: teardown of the pipeline, the render pass and the pipeline layout.
TeardownPipeline ==
    << [line |-> 1028, fn |-> "vkDestroyPipeline", kind |-> "destroy", checked |-> FALSE, obj |-> "vk_pipeline", n |-> 0, loop |-> 0, step |-> 0, arg |-> <<>>],
       [line |-> 1029, fn |-> "vkDestroyRenderPass", kind |-> "destroy", checked |-> FALSE, obj |-> "vk_render_pass", n |-> 0, loop |-> 0, step |-> 0, arg |-> <<>>],
       [line |-> 1030, fn |-> "vkDestroyPipelineLayout", kind |-> "destroy", checked |-> FALSE, obj |-> "vk_pipeline_layout", n |-> 0, loop |-> 0, step |-> 0, arg |-> <<>>] >>

\* main.cpp 1031-1041: teardown of the image views, surface, device and instance, SDL shutdown, return.
TeardownDevice ==
    << [line |-> 1031, fn |-> "for v : swapchain_image_views", kind |-> "for", checked |-> FALSE, obj |-> "", n |-> 0, loop |-> 5, step |-> 0, arg |-> <<>>],
       [line |-> 1032, fn |-> "vkDestroyImageView", kind |-> "destroy", checked |-> FALSE, obj |-> "swapchain_image_views", n |-> 0, loop |-> 5, step |-> 0, arg |-> <<>>],
       [line |-> 1034, fn |-> "vkDestroySurfaceKHR", kind |-> "destroy", checked |-> FALSE, obj |-> "vk_surface", n |-> 0, loop |-> 0, step |-> 0, arg |-> <<>>],
       [line |-> 1035, fn |-> "vkDestroyDevice", kind |-> "destroy", checked |-> FALSE, obj |-> "vk_device", n |-> 0, loop |-> 0, step |-> 0, arg |-> <<>>],
       [line |-> 1036, fn |-> "vkDestroyInstance", kind |-> "destroy", checked |-> FALSE, obj |-> "vk_instance", n |-> 0, loop |-> 0, step |-> 0, arg |-> <<>>],
       [line |-> 1038, fn |-> "SDL_DestroyWindow", kind |-> "destroy", checked |-> FALSE, obj |-> "window", n |-> 0, loop |-> 0, step |-> 0, arg |-> <<>>],
       [line |-> 1039, fn |-> "SDL_Quit", kind |-> "void", checked |-> FALSE, obj |-> "", n |-> 0, loop |-> 0, step |-> 0, arg |-> <<>>],
       [line |-> 1041, fn |-> "return 0", kind |-> "return", checked |-> FALSE, obj |-> "", n |-> 0, loop |-> 0, step |-> 0, arg |-> <<>>] >>

\* unnamed/part_000 22-133: the earlier program: SDL start-up, instance, device
\* enumeration, event loop, teardown.
Part0Calls ==
    << [line |-> 23, fn |-> "SDL_Init", kind |-> "sdl_init", checked |-> FALSE, obj |-> "", n |-> 0, loop |-> 0, step |-> 0, arg |-> <<>>],
       [line |-> 28, fn |-> "SDL_CreateWindow", kind |-> "sdl_window", checked |-> FALSE, obj |-> "window", n |-> 0, loop |-> 0, step |-> 0, arg |-> <<>>],
       [line |-> 33, fn |-> "vkEnumerateInstanceExtensionProperties", kind |-> "query", checked |-> FALSE, obj |-> "", n |-> 0, loop |-> 0, step |-> 0, arg |-> <<>>],
       [line |-> 36, fn |-> "vkEnumerateInstanceExtensionProperties", kind |-> "query", checked |-> FALSE, obj |-> "", n |-> 0, loop |-> 0, step |-> 0, arg |-> <<>>],
       [line |-> 69, fn |-> "vkCreateInstance", kind |-> "create", checked |-> TRUE, obj |-> "vk_instance", n |-> 0, loop |-> 0, step |-> 0, arg |-> <<>>],
       [line |-> 75, fn |-> "vkEnumeratePhysicalDevices", kind |-> "count_devices", checked |-> FALSE, obj |-> "", n |-> 0, loop |-> 0, step |-> 0, arg |-> <<>>],
       [line |-> 78, fn |-> "vkEnumeratePhysicalDevices", kind |-> "select_device", checked |-> FALSE, obj |-> "", n |-> 0, loop |-> 0, step |-> 0, arg |-> <<>>],
       [line |-> 105, fn |-> "SDL_GetWindowWMInfo", kind |-> "sdl_query", checked |-> FALSE, obj |-> "", n |-> 0, loop |-> 0, step |-> 0, arg |-> <<>>],
       [line |-> 111, fn |-> "while (!done)", kind |-> "while", checked |-> FALSE, obj |-> "", n |-> 0, loop |-> 9, step |-> 0, arg |-> <<>>],
       [line |-> 113, fn |-> "SDL_PollEvent", kind |-> "poll", checked |-> FALSE, obj |-> "", n |-> 0, loop |-> 9, step |-> 0, arg |-> <<>>],
       [line |-> 127, fn |-> "vkDestroyInstance", kind |-> "destroy", checked |-> FALSE, obj |-> "vk_instance", n |-> 0, loop |-> 0, step |-> 0, arg |-> <<>>],
       [line |-> 129, fn |-> "SDL_DestroyWindow", kind |-> "destroy", checked |-> FALSE, obj |-> "window", n |-> 0, loop |-> 0, step |-> 0, arg |-> <<>>],
       [line |-> 130, fn |-> "SDL_Quit", kind |-> "void", checked |-> FALSE, obj |-> "", n |-> 0, loop |-> 0, step |-> 0, arg |-> <<>>],
       [line |-> 132, fn |-> "return 0", kind |-> "return", checked |-> FALSE, obj |-> "", n |-> 0, loop |-> 0, step |-> 0, arg |-> <<>>] >>

\* main.cpp 73-1042: main, the whole call sequence.
MainCalls ==
    MainInstance \o MainDevice \o MainSwapchain \o MainPipeline \o MainFramebuffers
    \o VertexUpload \o VertexUploadSubmit \o IndexUpload \o IndexUploadSubmit
    \o BlasBuild \o BlasBuildSubmit \o InstanceUpload \o InstanceUploadSubmit
    \o TlasBuild \o TlasBuildSubmit
    \o RecordRender \o SyncObjects \o FrameLoop
    \o TeardownSync \o TeardownSwapchain \o TeardownPipeline \o TeardownDevice

Calls == IF prog = "main" THEN MainCalls ELSE Part0Calls
Cur == Calls[pc]

\* ------------------------------------------------------- control flow
LoopHeaders == {"for", "while"}
InBody(p) == Calls[p].loop # 0 /\ Calls[p].kind \notin LoopHeaders
LastOfBody(p) ==
    /\ InBody(p)
    /\ (p = Len(Calls) \/ Calls[p + 1].loop # Calls[p].loop)
Header(l) ==
    CHOOSE h \in 1..Len(Calls) : Calls[h].loop = l /\ Calls[h].kind \in LoopHeaders
BodyEnd(l) == CHOOSE p \in 1..Len(Calls) : Calls[p].loop = l /\ LastOfBody(p)

\* The range each for-loop runs over.
LoopCount(l) ==
    CASE l = 1 -> Len(swapchain_images)
      [] l = 2 -> swapchain_image_views
      [] l = 3 -> command_buffers
      [] l = 4 -> framebuffers
      [] l = 5 -> swapchain_image_views
      [] OTHER -> 0

\* Fall through to the next call, or back to the header from the end of a body.
Advance ==
    IF LastOfBody(pc)
    THEN /\ pc' = Header(Cur.loop)
         /\ i' = IF Calls[Header(Cur.loop)].kind = "for" THEN i + 1 ELSE i
    ELSE /\ pc' = pc + 1
         /\ i' = i

At(k) == status = "running" /\ pc \in 1..Len(Calls) /\ Cur.kind = k

\* The call being made and what it returned, as the step's history keeps it.
LogEntry(res) ==
    [fn |-> Cur.fn, obj |-> Cur.obj, step |-> Cur.step, arg |-> Cur.arg, res |-> res]
\* The history of the current one-shot step with this call added; it starts
\* afresh with each step and is empty outside the five steps.
Logged(res) ==
    IF Cur.step = 0 THEN <<>>
    ELSE IF log # <<>> /\ log[1].step # Cur.step THEN <<LogEntry(res)>>
    ELSE Append(log, LogEntry(res))
\* The call returned res; the macro (if the call is wrapped) evaluated it.
Returned(res) ==
    /\ last' = pc
    /\ r' = res
    /\ evals' = IF Cur.checked THEN MacroEvaluations ELSE evals
    /\ log' = Logged(res)
Throws(res) == Cur.checked /\ CHECK_VULKAN(res)
Throw == status' = "thrown" /\ UNCHANGED <<pc, i, exit_code>>
Continue == Advance /\ UNCHANGED <<status, exit_code>>
\* A null pointer is dereferenced: the process is killed, in the call being
\* made (Crash) or in the code that follows a call that returned (Killed).
Killed == status' = "crashed" /\ UNCHANGED <<pc, i, exit_code>>
Crash == Killed /\ UNCHANGED <<last, r, evals, log>>

\* The object a call creates or destroys: the loop's element, or a named handle.
Obj == <<Cur.obj, IF Cur.loop \in {1, 2, 4, 5} THEN i ELSE Cur.n>>
\* The command buffer a call records or submits: command_buffers[i] in the
\* render recording, command_buffers[0] in the one-shot steps.
CbIndex == IF Cur.loop = 3 THEN i ELSE 0
Range(s) == {s[k] : k \in 1..Len(s)}

\* ----------------------------------------------------------- SDL events
NoEvent == [type |-> "none", sym |-> "none", wev |-> "none", windowID |-> 0]
Events ==
    {[type |-> "SDL_QUIT", sym |-> "none", wev |-> "none", windowID |-> 0]}
    \cup {[type |-> t, sym |-> s, wev |-> "none", windowID |-> 1] :
            t \in {"SDL_KEYDOWN", "SDL_KEYUP"}, s \in {"SDLK_ESCAPE", "SDLK_a"}}
    \cup {[type |-> "SDL_WINDOWEVENT", sym |-> "none", wev |-> w, windowID |-> id] :
            w \in {"SDL_WINDOWEVENT_CLOSE", "SDL_WINDOWEVENT_RESIZED"}, id \in {1, 2}}

\* SDL_GetWindowID: 0 for a NULL window.
SDL_GetWindowID(w) == w

\* The handler without the window-ID test of the close event.
HandleEvent_AnyWindow(d, e, w) ==
    d \/ e.type = "SDL_QUIT"
      \/ (e.type = "SDL_KEYDOWN" /\ e.sym = "SDLK_ESCAPE")
      \/ (e.type = "SDL_WINDOWEVENT" /\ e.wev = "SDL_WINDOWEVENT_CLOSE")
\* The three ifs of the poll loop, applied in order to `done`.
HandleEvent(d, e, w) ==
    LET d1 == IF e.type = "SDL_QUIT" THEN TRUE ELSE d
        d2 == IF e.type = "SDL_KEYDOWN" /\ e.sym = "SDLK_ESCAPE" THEN TRUE ELSE d1
        d3 == IF /\ e.type = "SDL_WINDOWEVENT"
                 /\ e.wev = "SDL_WINDOWEVENT_CLOSE"
                 /\ e.windowID = SDL_GetWindowID(w)
              THEN TRUE ELSE d2
    IN  d3

\* A loop that never looks at done.
WhileCond_Forever(d) == TRUE
\* while (!done)
WhileCond(d) == ~d

\* ------------------------------------------------- device and queue family
DeviceTypes == {"DISCRETE_GPU", "INTEGRATED_GPU", "CPU"}
\* An element of `devices` the driver did not write: VkPhysicalDevice{}.
NullDevice == "VK_NULL_HANDLE"
\* std::vector<VkPhysicalDevice> devices(device_count, VkPhysicalDevice{})
\* after the second vkEnumeratePhysicalDevices returned res: count elements,
\* the ones the driver wrote first and null handles after them.  The driver
\* writes nothing when it fails, fills the array when it returns
\* VK_INCOMPLETE, and writes the devices there are (at most count) when it
\* returns VK_SUCCESS.
DeviceVectors(res, count) ==
    {v \in [1..count -> DeviceTypes \cup {NullDevice}] :
        /\ \A k \in 1..count : v[k] = NullDevice => \A m \in k..count : v[m] = NullDevice
        /\ res \in VkErrors => \A k \in 1..count : v[k] = NullDevice
        /\ res = "VK_INCOMPLETE" => \A k \in 1..count : v[k] # NullDevice}
FamilyProps == [graphics : BOOLEAN, present : BOOLEAN]
FamilyLists == UNION {[1..n -> FamilyProps] : n \in 0..MaxFamilies}

\* What the driver may enumerate when the selection is followed on its own.
ListedFamilies == UNION {[1..n -> FamilyProps] : n \in 0..MaxListed}
\* Neither enumeration has been followed.
NothingListed == [devices |-> <<>>, families |-> <<>>, stage |-> "none"]

\* main.cpp: vkGetPhysicalDeviceProperties is given a null handle, which the
\* loader dereferences.  find_if asks every element up to the first discrete
\* GPU, and the loop only elements find_if has asked.
SelectionDereferencesNull(devs) ==
    \E k \in 1..Len(devs) :
        /\ devs[k] = NullDevice
        /\ \A m \in 1..(k - 1) : devs[m] # "DISCRETE_GPU"
\* part_000: the loop asks every element.
SelectionDereferencesNull0(devs) == \E k \in 1..Len(devs) : devs[k] = NullDevice

\* main.cpp: the first discrete GPU if there is one, else the first
\* integrated GPU, else VK_NULL_HANDLE (0).
PickPhysicalDevice(devs) ==
    LET has_discrete_gpu == \E k \in 1..Len(devs) : devs[k] = "DISCRETE_GPU"
        hit(k) == \/ has_discrete_gpu /\ devs[k] = "DISCRETE_GPU"
                  \/ ~has_discrete_gpu /\ devs[k] = "INTEGRATED_GPU"
        hits == {k \in 1..Len(devs) : hit(k)}
    IN  IF hits = {} THEN 0 ELSE CHOOSE k \in hits : \A m \in hits : k <= m

\* part_000: the loop has no break, the last discrete GPU wins.
PickPhysicalDevice0(devs) ==
    LET hits == {k \in 1..Len(devs) : devs[k] = "DISCRETE_GPU"}
    IN  IF hits = {} THEN 0 ELSE CHOOSE k \in hits : \A m \in hits : k >= m

\* A family loop that stops at the first family with present and graphics.
PickQueueFamily_First(fams, k, idx) ==
    LET hits == {n \in k..Len(fams) : fams[n].present /\ fams[n].graphics}
    IN  IF hits = {} THEN idx ELSE (CHOOSE n \in hits : \A m \in hits : n <= m) - 1
\* The family loop: every family with present and graphics overwrites the index.
RECURSIVE PickQueueFamily(_, _, _)
PickQueueFamily(fams, k, idx) ==
    IF k > Len(fams) THEN idx
    ELSE PickQueueFamily(fams, k + 1,
            IF fams[k].present /\ fams[k].graphics THEN k - 1 ELSE idx)

NullQueue == [family |-> NoFamily, index |-> 0, null |-> TRUE]
\* VkDeviceQueueCreateInfo: one queue of the selected family.
DeviceQueueCreateInfo == [queueFamilyIndex |-> graphics_queue_index, queueCount |-> QueueCount]
\* vkGetDeviceQueue(vk_device, graphics_queue_index, 0, &vk_queue)
GetDeviceQueue == [family |-> graphics_queue_index, index |-> QueueIndex, null |-> FALSE]
\* A pool created for the family after the selected one.
CommandPoolFamily_Other == graphics_queue_index + 1
\* create_info.queueFamilyIndex of the command pool
CommandPoolFamily == graphics_queue_index
\* The handle a queue operation is given.
QueueUsed == vk_queue

\* ------------------------------------------- image views and framebuffers
\* The handle of swapchain image k; 0 is VK_NULL_HANDLE.
ImageHandle(k) == k + 1
\* swapchain_images.resize(n) of the empty vector: n null handles.
NullImages(n) == [k \in 1..n |-> 0]
\* What vkGetSwapchainImagesKHR writes into a vector of that many elements:
\* the handles of the images in index order, or nothing when it fails.
SwapchainImages(res, images) ==
    IF res \in VkErrors THEN images ELSE [k \in 1..Len(images) |-> ImageHandle(k - 1)]
\* The indices vkAcquireNextImageKHR may return, those of the images the
\* swapchain has: as many as the count call reported.  (When that call failed
\* there is no command buffer, and the program does not get as far as the
\* frame loop: the first upload records into command_buffers[0].)
AcquirableImages == 0..(Len(swapchain_images) - 1)
\* view_create_info.image = img, the element of swapchain_images the loop is at.
ViewImage(k) == swapchain_images[k + 1]
\* attachments = { v }, the element of swapchain_image_views the loop is at.
Attachment(k) == k
\* render_pass_info.framebuffer = framebuffers[i]
RenderTarget(k) == k

\* ------------------------------------------------------ command buffers
\* submits: how often the current recording, if it is a one-time-submit
\* recording, has been submitted.
InitialCB == [state |-> "initial", cmds |-> <<>>, one_time |-> FALSE, submits |-> 0]
\* Always the first command buffer.
FrameCommandBuffer_First(img) == 0
\* submit_info.pCommandBuffers = &command_buffers[img_index]
FrameCommandBuffer(img) == img
\* present_info.pImageIndices = &img_index
PresentedImage(img) == img

\* A semaphore: the signal and wait operations issued on it in the current
\* iteration of the frame loop, and whether one of each is still outstanding.
IdleSemaphore == [signals |-> 0, waits |-> 0, signal_pending |-> FALSE, wait_pending |-> FALSE]
\* The results with which vkAcquireNextImageKHR has acquired an image: its
\* success codes other than VK_TIMEOUT and VK_NOT_READY.
AcquiresImage(res) == res \in {"VK_SUCCESS", "VK_SUBOPTIMAL_KHR"}
\* The results with which vkQueuePresentKHR has queued the request: its
\* success codes.
QueuesPresent(res) == res \in {"VK_SUCCESS", "VK_SUBOPTIMAL_KHR"}
\* An operation is issued on semaphore s.
SemSignal(s) == [s EXCEPT !.signals = @ + 1, !.signal_pending = TRUE]
SemWait(s) == [s EXCEPT !.waits = @ + 1, !.wait_pending = TRUE]
\* The next iteration begins: its counts start at zero.
SemNextIteration(s) == [s EXCEPT !.signals = 0, !.waits = 0]

\* a & b on unsigned integers.
RECURSIVE BitAnd(_, _)
BitAnd(a, b) ==
    IF a = 0 \/ b = 0
    THEN 0
    ELSE (a % 2) * (b % 2) + 2 * BitAnd(a \div 2, b \div 2)
\* 1 << i, for the small i of a memory type index.
Bit(n) == 2 ^ n
\* throw std::runtime_error("failed to find appropriate memory")
NoMemoryType == [threw |-> TRUE, what |-> "failed to find appropriate memory"]
\* The for loop of get_memory_type_index from index n on: the first index
\* below memoryTypeCount whose bit is set in type_filter and whose
\* propertyFlags contain props is returned; past the last one it throws.
\* memoryTypes[n] of the code is memoryTypes[n + 1] here.
RECURSIVE MemoryTypeFrom(_, _, _, _)
MemoryTypeFrom(n, type_filter, props, mem_props) ==
    IF n < mem_props.memoryTypeCount
    THEN IF /\ BitAnd(type_filter, Bit(n)) # 0
            /\ BitAnd(mem_props.memoryTypes[n + 1].propertyFlags, props) = props
         THEN [threw |-> FALSE, value |-> n]
         ELSE MemoryTypeFrom(n + 1, type_filter, props, mem_props)
    ELSE NoMemoryType
\* The loop that never tests type_filter.
get_memory_type_index_AnyType(type_filter, props, mem_props) ==
    MemoryTypeFrom(0, Bit(MaxMemoryTypes) - 1, props, mem_props)
get_memory_type_index(type_filter, props, mem_props) ==
    MemoryTypeFrom(0, type_filter, props, mem_props)
\* The values of VkMemoryPropertyFlags over the two flags, of a
\* memoryTypeBits mask, and of VkPhysicalDeviceMemoryProperties: a fixed
\* array memoryTypes of which the first memoryTypeCount entries are valid.
PropertyFlags == 0..(VK_MEMORY_PROPERTY_DEVICE_LOCAL_BIT + VK_MEMORY_PROPERTY_HOST_VISIBLE_BIT)
TypeFilters == 0..(Bit(MaxMemoryTypes) - 1)
MemoryProperties ==
    [memoryTypeCount : 0..MaxMemoryTypes,
     memoryTypes : [1..MaxMemoryTypes -> [propertyFlags : PropertyFlags]]]
\* Whether get_memory_type_index(type bits, props, mem_props) returns (TRUE)
\* or throws (FALSE), over every type mask and memory type table the driver
\* may report.
MemoryTypeFound ==
    [props \in PropertyFlags |->
        {~get_memory_type_index(type_filter, props, mem_props).threw :
            type_filter \in TypeFilters, mem_props \in MemoryProperties}]
\* No call of get_memory_type_index is being followed.
NoQuery ==
    [type_filter |-> 0, props |-> 0,
     mem_props |-> [memoryTypeCount |-> 0,
                    memoryTypes |-> [n \in 1..MaxMemoryTypes |-> [propertyFlags |-> 0]]],
     result |-> <<>>]

\* Nothing copied yet by step s.
NotUploaded(s) == [step |-> s, holds |-> <<>>]
\* The copy commands of a recording: [arg |-> <<source buffer, destination, size>>].
Copies(cmds) == SelectSeq(cmds, LAMBDA c : c.op = "vkCmdCopyBuffer")
\* What the host has written into the staging memory of the current step:
\* <<host source, bytes>> of its memcpy or memset, <<>> if there was none.
Staged(s) ==
    LET w == SelectSeq(log, LAMBDA c : c.step = s /\ c.fn \in {"memcpy", "memset"})
    IN  IF w = <<>> THEN <<>> ELSE w[Len(w)].arg
\* The vkBindBufferMemory of buffer buf in step s returned VK_SUCCESS: the
\* buffer has memory.
Bound(s, buf) ==
    \E k \in 1..Len(log) :
        /\ log[k].step = s /\ log[k].fn = "vkBindBufferMemory"
        /\ log[k].obj = buf /\ log[k].res = "VK_SUCCESS"
\* What the device may be like where the code does not ask: the memory type
\* found for the staging memory, asked for as HOST_VISIBLE alone, may be
\* HOST_COHERENT as well, and memory of that type and of the size allocated,
\* both taken from the destination's requirements, may meet the requirements
\* of the staging buffer.
StagingFacts == {"HOST_COHERENT", "MEETS_UPLOAD_BUFFER"}
\* The host's writes of step s were flushed to the device.  No step calls
\* vkFlushMappedMemoryRanges.
Flushed(s) ==
    \E k \in 1..Len(log) :
        log[k].step = s /\ log[k].fn = "vkFlushMappedMemoryRanges"
\* The device sees what the host wrote into the staging memory of step s.
HostCoherent(s, facts) == "HOST_COHERENT" \in facts \/ Flushed(s)
\* Step s asked for the memory requirements of buffer buf.
Queried(s, buf) ==
    \E k \in 1..Len(log) :
        /\ log[k].step = s /\ log[k].fn = "vkGetBufferMemoryRequirements"
        /\ log[k].obj = buf
\* The memory bound to buf in step s meets the buffer's requirements: it was
\* allocated from the requirements queried for buf, or, for the staging
\* buffer, the device happens to accept that memory for it.
MeetsRequirements(s, buf, facts) ==
    \/ Queried(s, buf)
    \/ buf = "upload_buffer" /\ "MEETS_UPLOAD_BUFFER" \in facts
\* What the device's copy of step s may leave in the destination dst, on a
\* device of which `facts` hold: the first `size` bytes of the staging
\* buffer.  They are the host's data when both buffers exist and have memory
\* that meets their requirements, the host wrote at least that much and the
\* device sees the writes.  With memory bound against a buffer's
\* requirements, or host writes the device need not see, the bytes may be
\* the host's data or anything else.
CopyResult(s, dst, size, facts) ==
    IF /\ <<"upload_buffer", s>> \in alive /\ Bound(s, "upload_buffer")
       /\ <<dst, 0>> \in alive /\ Bound(s, dst)
       /\ Staged(s) # <<>>
       /\ Staged(s)[2] >= size
    THEN IF /\ MeetsRequirements(s, "upload_buffer", facts)
            /\ MeetsRequirements(s, dst, facts)
            /\ HostCoherent(s, facts)
         THEN {<<Staged(s)[1], size>>}
         ELSE {<<Staged(s)[1], size>>, <<"undefined", size>>}
    ELSE {<<"undefined", size>>}
\* What the device's execution of submission h may leave in the destination
\* of its copy.  It reads the recording as it is now: when the command buffer
\* has been reset or recorded anew since the submission, the bytes are
\* undefined.
Executed(h, facts) ==
    LET c == h.copy[1]
        now == Copies(cmdbuf[h.cb + 1].cmds)
    IN  IF cmdbuf[h.cb + 1].state = "pending" /\ now = h.copy
        THEN CopyResult(h.step, c.arg[2], c.arg[3], facts)
        ELSE {<<"undefined", c.arg[3]>>}

EmptyIt == [acq |-> <<>>, sub |-> <<>>, pres |-> <<>>]
Count(op) == IF done THEN [after_done EXCEPT ![op] = @ + 1] ELSE after_done

\* ================================================================ actions

Init ==
    /\ prog \in {"main", "part0"}
    /\ query = NoQuery
    /\ pc = 1 /\ i = 0 /\ status = "running" /\ exit_code = 0
    /\ last = 0 /\ r = "none" /\ evals = 0 /\ log = <<>>
    /\ window = 0 /\ upload_mapping = FALSE
    /\ device_count = 0
    /\ vk_physical_device = 0
    /\ graphics_queue_index = NoFamily
    /\ device_queues = [queueFamilyIndex |-> NoFamily, queueCount |-> 0]
    /\ vk_queue = NullQueue
    /\ pool_family = NoFamily
    /\ alive = {} /\ created = <<>> /\ destroyed = <<>>
    /\ swapchain_images = <<>> /\ swapchain_image_views = 0
    /\ framebuffers = 0 /\ command_buffers = 0
    /\ cmdbuf = <<>> /\ pending = <<>> /\ fence = "unsignaled"
    /\ awaiting = 0 /\ queue_ops = {}
    /\ listed = NothingListed
    /\ uploaded = NotUploaded(0)
    /\ attachments = [view_image |-> <<>>, fb_view |-> <<>>]
    /\ sem = [img_avail_semaphore |-> IdleSemaphore,
              render_finished_semaphore |-> IdleSemaphore]
    /\ done = FALSE /\ event = NoEvent /\ polled = 0 /\ frame = 0
    /\ img_index = 0 /\ it = EmptyIt
    /\ after_done = [acq |-> 0, sub |-> 0, pres |-> 0]

\* if (SDL_Init(SDL_INIT_EVERYTHING) != 0) { ...; return -1; }
SdlInit ==
    /\ At("sdl_init")
    /\ \E ok \in BOOLEAN :
        /\ Returned(IF ok THEN "SDL_OK" ELSE "SDL_ERROR")
        /\ IF ok THEN Continue
           ELSE status' = "returned" /\ exit_code' = -1 /\ UNCHANGED <<pc, i>>
    /\ UNCHANGED <<prog, query, listed, sem, attachments, uploaded, host, sel, objs, vecs, gpu, lvars>>

\* SDL_Window* window = SDL_CreateWindow(...): the result is not tested.
SdlCreateWindow ==
    /\ At("sdl_window")
    /\ \E ok \in BOOLEAN :
        /\ Returned(IF ok THEN "SDL_OK" ELSE "SDL_ERROR")
        /\ window' = IF ok THEN 1 ELSE 0
        /\ alive' = IF ok THEN alive \cup {Obj} ELSE alive
        /\ created' = IF ok THEN Append(created, Obj) ELSE created
    /\ Continue
    /\ UNCHANGED <<prog, query, listed, sem, attachments, uploaded, upload_mapping, sel, destroyed, vecs, gpu, lvars>>

\* SDL_GetWindowWMInfo(window, &wm_info): the SDL_bool is not tested.
SdlGetWindowWMInfo ==
    /\ At("sdl_query")
    /\ \E ok \in BOOLEAN : Returned(IF ok THEN "SDL_OK" ELSE "SDL_ERROR")
    /\ Continue
    /\ UNCHANGED <<prog, query, listed, sem, attachments, uploaded, host, sel, objs, vecs, gpu, lvars>>

\* A call that returns a VkResult and changes nothing the model tracks:
\* enumerations and queries (unchecked), memory binds, handle queries.
PlainCall ==
    /\ status = "running" /\ Cur.kind \in {"query", "bind", "gethandle"}
    /\ \E res \in ResultsOf(Cur.fn) :
        /\ Returned(res)
        /\ IF Throws(res) THEN Throw ELSE Continue
    /\ UNCHANGED <<prog, query, listed, sem, attachments, uploaded, host, sel, objs, vecs, gpu, lvars>>

\* A call that returns nothing.
VoidCall ==
    /\ At("void")
    /\ Returned("void")
    /\ upload_mapping' = IF Cur.fn = "vkUnmapMemory" THEN FALSE ELSE upload_mapping
    /\ Continue
    /\ UNCHANGED <<prog, query, listed, sem, attachments, uploaded, window, sel, objs, vecs, gpu, lvars>>

\* The first vkEnumeratePhysicalDevices (result not tested): it writes the
\* number of devices, at most max, unless it returns an error, and then
\* device_count keeps its initial 0.
QueryDeviceCount(max) ==
    /\ At("count_devices")
    /\ \E res \in ResultsOf(Cur.fn), n \in 0..max :
        /\ Returned(res)
        /\ device_count' = IF res \in VkErrors THEN 0 ELSE n
    /\ Continue
    /\ UNCHANGED <<prog, query, listed, sem, attachments, uploaded, host, vk_physical_device,
                   graphics_queue_index, device_queues, vk_queue, pool_family, objs, vecs,
                   gpu, lvars>>

CountDevices == QueryDeviceCount(MaxDevices)

\* The second vkEnumeratePhysicalDevices (result not tested), which returned
\* res and left devs in `devices`, and the selection after it, to the end of
\* the block.  The selection runs over every element of `devices`, whatever
\* the call returned.
EnumerateAndSelect(res, devs) ==
    /\ Returned(res)
    /\ IF IF prog = "main" THEN SelectionDereferencesNull(devs)
                           ELSE SelectionDereferencesNull0(devs)
       THEN /\ Killed
            /\ UNCHANGED <<device_count, vk_physical_device>>
       ELSE /\ vk_physical_device' =
                  IF prog = "main" THEN PickPhysicalDevice(devs)
                                   ELSE PickPhysicalDevice0(devs)
            /\ device_count' = 0
            /\ Continue
    /\ UNCHANGED <<prog, query, sem, attachments, uploaded, host, graphics_queue_index,
                   device_queues, vk_queue, pool_family, objs, vecs, gpu, lvars>>

SelectDevice ==
    /\ At("select_device")
    /\ \E res \in ResultsOf(Cur.fn) :
        \E devs \in DeviceVectors(res, device_count) : EnumerateAndSelect(res, devs)
    /\ UNCHANGED listed

\* vkGetPhysicalDeviceQueueFamilyProperties, returning the list fams, and the
\* family loop.  The loader dereferences the physical-device handle: a null
\* handle kills the process.
QueryAndSelectFamily(fams) ==
    /\ IF vk_physical_device = 0
       THEN Crash /\ UNCHANGED graphics_queue_index
       ELSE /\ graphics_queue_index' = PickQueueFamily(fams, 1, graphics_queue_index)
            /\ Returned("void")
            /\ Continue
    /\ UNCHANGED <<prog, query, sem, attachments, uploaded, host, device_count,
                   vk_physical_device, device_queues, vk_queue, pool_family, objs, vecs,
                   gpu, lvars>>

SelectFamily ==
    /\ At("select_family")
    /\ \E fams \in FamilyLists : QueryAndSelectFamily(fams)
    /\ UNCHANGED listed

\* CHECK_VULKAN(vkCreateX(...)) and CHECK_VULKAN(vkAllocateMemory(...)).
Create ==
    /\ At("create")
    /\ \/ \E res \in ResultsOf(Cur.fn) :
            /\ Returned(res)
            /\ IF Throws(res)
               THEN /\ Throw
                    /\ UNCHANGED <<alive, created, swapchain_image_views, framebuffers,
                                   device_queues, pool_family, attachments>>
               ELSE /\ alive' = alive \cup {Obj}
                    /\ created' = Append(created, Obj)
                    /\ swapchain_image_views' =
                          swapchain_image_views + IF Cur.obj = "swapchain_image_views" THEN 1 ELSE 0
                    /\ framebuffers' = framebuffers + IF Cur.obj = "framebuffers" THEN 1 ELSE 0
                    /\ attachments' =
                          CASE Cur.obj = "swapchain_image_views" ->
                                 [attachments EXCEPT !.view_image = Append(@, ViewImage(i))]
                            [] Cur.obj = "framebuffers" ->
                                 [attachments EXCEPT !.fb_view = Append(@, Attachment(i))]
                            [] OTHER -> attachments
                    /\ device_queues' =
                          IF Cur.obj = "vk_device" THEN DeviceQueueCreateInfo ELSE device_queues
                    /\ pool_family' =
                          IF Cur.obj = "vk_command_pool" THEN CommandPoolFamily ELSE pool_family
                    /\ Continue
       \/ \* a view of VK_NULL_HANDLE: the driver may also dereference the handle
          /\ Cur.obj = "swapchain_image_views" /\ ViewImage(i) = 0
          /\ Crash
          /\ UNCHANGED <<alive, created, swapchain_image_views, framebuffers,
                         device_queues, pool_family, attachments>>
    /\ UNCHANGED <<prog, query, listed, sem, uploaded, host, device_count, vk_physical_device,
                   graphics_queue_index, vk_queue, destroyed, swapchain_images, command_buffers, gpu, lvars>>

\* vkGetDeviceQueue(vk_device, graphics_queue_index, 0, &vk_queue)
GetQueue ==
    /\ At("getqueue")
    /\ Returned("void")
    /\ vk_queue' = GetDeviceQueue
    /\ Continue
    /\ UNCHANGED <<prog, query, listed, sem, attachments, uploaded, host, device_count,
                   vk_physical_device, graphics_queue_index, device_queues, pool_family,
                   objs, vecs, gpu, lvars>>

\* The first vkGetSwapchainImagesKHR (result not tested) and the resize to
\* whatever count the call wrote: it writes the count unless it returns an
\* error, and then the count keeps its initial 0.  The new elements are null
\* handles.
GetImages ==
    /\ At("get_images")
    /\ \E res \in ResultsOf(Cur.fn), n \in MinImageCount..MaxImages :
        /\ Returned(res)
        /\ swapchain_images' = NullImages(IF res \in VkErrors THEN 0 ELSE n)
    /\ Continue
    /\ UNCHANGED <<prog, query, listed, sem, attachments, uploaded, host, sel, objs, swapchain_image_views, framebuffers,
                   command_buffers, gpu, lvars>>

\* The second vkGetSwapchainImagesKHR (result not tested) fills the vector
\* with the handles of the images; when it fails the elements stay null.
FillImages ==
    /\ At("fill_images")
    /\ \E res \in ResultsOf(Cur.fn) :
        /\ Returned(res)
        /\ swapchain_images' = SwapchainImages(res, swapchain_images)
    /\ Continue
    /\ UNCHANGED <<prog, query, listed, sem, attachments, uploaded, host, sel, objs, swapchain_image_views, framebuffers,
                   command_buffers, gpu, lvars>>

\* for (...) over a vector: enter the body or leave the loop.
For ==
    /\ At("for")
    /\ IF i < LoopCount(Cur.loop)
       THEN pc' = pc + 1 /\ i' = i
       ELSE pc' = BodyEnd(Cur.loop) + 1 /\ i' = 0
    /\ UNCHANGED <<prog, query, listed, sem, attachments, uploaded, status, exit_code, last, r, evals, log, host, sel, objs, vecs, gpu, lvars>>

\* std::vector<VkCommandBuffer> command_buffers(framebuffers.size()) and
\* CHECK_VULKAN(vkAllocateCommandBuffers(...)).
AllocCmdBufs ==
    /\ At("alloc_cmdbufs")
    /\ command_buffers' = framebuffers
    /\ \E res \in ResultsOf(Cur.fn) :
        /\ Returned(res)
        /\ IF Throws(res)
           THEN Throw /\ UNCHANGED <<alive, created, cmdbuf>>
           ELSE /\ alive' = alive \cup {<<Cur.obj, j>> : j \in 0..(framebuffers - 1)}
                /\ created' = created \o [k \in 1..framebuffers |-> <<Cur.obj, k - 1>>]
                /\ cmdbuf' = [k \in 1..framebuffers |-> InitialCB]
                /\ Continue
    /\ UNCHANGED <<prog, query, listed, sem, attachments, uploaded, host, sel, destroyed, swapchain_images, swapchain_image_views,
                   framebuffers, pending, fence, awaiting, queue_ops, lvars>>

\* get_memory_type_index(mem_reqs.memoryTypeBits, props, mem_props): returns
\* an index or throws std::runtime_error. The type bits and the device's
\* memory types are the driver's.
MemType ==
    /\ At("memtype")
    /\ \E found \in MemoryTypeFound[Cur.arg[1]] :
        /\ last' = pc /\ r' = (IF found THEN "found" ELSE "not_found") /\ evals' = evals
        /\ log' = Logged(IF found THEN "found" ELSE "not_found")
        /\ IF found THEN Continue ELSE Throw
    /\ UNCHANGED <<prog, query, listed, sem, attachments, uploaded, host, sel, objs, vecs, gpu, lvars>>

\* vkMapMemory(..., &upload_mapping): the result is not tested; on failure
\* the pointer keeps its initial nullptr.
Map ==
    /\ At("map")
    /\ \E res \in ResultsOf(Cur.fn) :
        /\ Returned(res)
        /\ upload_mapping' = (res = "VK_SUCCESS")
    /\ Continue
    /\ UNCHANGED <<prog, query, listed, sem, attachments, uploaded, window, sel, objs, vecs, gpu, lvars>>

\* std::memcpy / std::memset through upload_mapping.
Memcpy ==
    /\ At("memcpy")
    /\ IF upload_mapping THEN Returned("void") /\ Continue ELSE Crash
    /\ UNCHANGED <<prog, query, listed, sem, attachments, uploaded, host, sel, objs, vecs, gpu, lvars>>

\* CHECK_VULKAN(vkBeginCommandBuffer(cmd_buf, &begin_info)); reading
\* command_buffers[k] of a shorter vector is a read through a bad pointer.
Begin ==
    /\ At("begin")
    /\ IF CbIndex >= command_buffers
       THEN Crash /\ UNCHANGED cmdbuf
       ELSE \E res \in ResultsOf(Cur.fn) :
              /\ Returned(res)
              /\ IF Throws(res)
                 THEN Throw /\ UNCHANGED cmdbuf
                 ELSE /\ cmdbuf' = [cmdbuf EXCEPT ![CbIndex + 1] =
                            [state |-> "recording", cmds |-> <<>>, one_time |-> Cur.arg[1],
                             submits |-> 0]]
                      /\ Continue
    /\ UNCHANGED <<prog, query, listed, sem, attachments, uploaded, host, sel, objs, vecs, pending, fence, awaiting, queue_ops, lvars>>

\* vkCmdX(cmd_buf, ...): appended to the buffer being recorded; idx is the
\* element (framebuffers[i] of the render pass) its arguments name.
Cmd ==
    /\ At("cmd")
    /\ Returned("void")
    /\ cmdbuf' = [cmdbuf EXCEPT ![CbIndex + 1].cmds =
                    Append(@, [op |-> Cur.fn, arg |-> Cur.arg, idx |-> RenderTarget(CbIndex)])]
    /\ Continue
    /\ UNCHANGED <<prog, query, listed, sem, attachments, uploaded, host, sel, objs, vecs, pending, fence, awaiting, queue_ops, lvars>>

\* CHECK_VULKAN(vkEndCommandBuffer(cmd_buf))
End ==
    /\ At("end")
    /\ \E res \in ResultsOf(Cur.fn) :
        /\ Returned(res)
        /\ IF Throws(res)
           THEN Throw /\ UNCHANGED cmdbuf
           ELSE /\ cmdbuf' = [cmdbuf EXCEPT ![CbIndex + 1].state = "executable"]
                /\ Continue
    /\ UNCHANGED <<prog, query, listed, sem, attachments, uploaded, host, sel, objs, vecs, pending, fence, awaiting, queue_ops, lvars>>

\* CHECK_VULKAN(vkQueueSubmit(vk_queue, 1, &submit_info, VK_NULL_HANDLE)) of a
\* one-shot step: command_buffers[0], no fence.
Submit ==
    /\ At("submit")
    /\ \E res \in ResultsOf(Cur.fn) :
        /\ Returned(res)
        /\ IF Throws(res)
           THEN Throw /\ UNCHANGED <<cmdbuf, pending, awaiting, queue_ops, uploaded>>
           ELSE /\ pending' = Append(pending, [cb |-> 0, fence |-> FALSE, step |-> Cur.step,
                                              copy |-> Copies(cmdbuf[1].cmds)])
                /\ cmdbuf' = [cmdbuf EXCEPT ![1].state = "pending", ![1].submits = @ + 1]
                /\ awaiting' = Cur.step
                /\ uploaded' = NotUploaded(Cur.step)
                /\ queue_ops' = queue_ops \cup {[op |-> Cur.fn, queue |-> QueueUsed]}
                /\ Continue
    /\ UNCHANGED <<prog, query, listed, sem, attachments, host, sel, objs, vecs, fence, lvars>>

\* vkQueueWaitIdle(vk_queue): blocks until the queue is empty, or fails at
\* once; the result is not tested.
WaitIdle ==
    /\ At("waitidle")
    /\ \E res \in ResultsOf(Cur.fn) :
        /\ res = "VK_SUCCESS" => pending = <<>>
        /\ Returned(res)
    /\ awaiting' = 0
    /\ queue_ops' = queue_ops \cup {[op |-> Cur.fn, queue |-> QueueUsed]}
    /\ Continue
    /\ UNCHANGED <<prog, query, listed, sem, attachments, uploaded, host, sel, objs, vecs, cmdbuf, pending, fence, lvars>>

\* vkResetCommandPool(...): every buffer of the pool back to initial; the
\* result is not tested, a failed reset leaves the buffers as they were.
ResetPool ==
    /\ At("resetpool")
    /\ \E res \in ResultsOf(Cur.fn) :
        /\ Returned(res)
        /\ cmdbuf' = IF res = "VK_SUCCESS"
                     THEN [k \in DOMAIN cmdbuf |-> InitialCB]
                     ELSE cmdbuf
    /\ Continue
    /\ UNCHANGED <<prog, query, listed, sem, attachments, uploaded, host, sel, objs, vecs, pending, fence, awaiting, queue_ops, lvars>>

\* vkDestroyX / vkFreeMemory / SDL_DestroyWindow: no result.  Destroying the
\* pool frees its command buffers; destroying a null handle does nothing.
Destroy ==
    /\ At("destroy")
    /\ Returned("void")
    /\ alive' = alive \ ({Obj} \cup
                   IF Cur.obj = "vk_command_pool"
                   THEN {o \in alive : o[1] = "command_buffers"} ELSE {})
    /\ destroyed' = IF Obj \in Range(created)
                    THEN Append(destroyed, [obj |-> Obj, line |-> Cur.line])
                    ELSE destroyed
    /\ Continue
    /\ UNCHANGED <<prog, query, listed, sem, attachments, uploaded, host, sel, created, vecs, gpu, lvars>>

\* The queue finishes its oldest submission and signals its fence.  The
\* command buffer leaves the pending state with the last submission of it,
\* and a copy the submission holds is executed.
GpuComplete ==
    /\ status = "running"
    /\ pending # <<>>
    /\ LET h == Head(pending) IN
        /\ pending' = Tail(pending)
        /\ cmdbuf' = IF /\ cmdbuf[h.cb + 1].state = "pending"
                        /\ \A k \in 2..Len(pending) : pending[k].cb # h.cb
                     THEN [cmdbuf EXCEPT ![h.cb + 1].state =
                              IF cmdbuf[h.cb + 1].one_time THEN "invalid" ELSE "executable"]
                     ELSE cmdbuf
        /\ fence' = IF h.fence THEN "signaled" ELSE fence
        /\ sem' = IF h.step = 0
                  THEN [sem EXCEPT !.img_avail_semaphore.signal_pending = FALSE,
                                   !.img_avail_semaphore.wait_pending = FALSE,
                                   !.render_finished_semaphore.signal_pending = FALSE]
                  ELSE sem
        /\ IF h.copy = <<>>
           THEN uploaded' = uploaded
           ELSE \E left \in UNION {Executed(h, facts) : facts \in SUBSET StagingFacts} :
                    uploaded' = [step |-> h.step, holds |-> left]
    /\ UNCHANGED <<prog, query, listed, attachments, ctl, host, sel, objs, vecs, awaiting, queue_ops, lvars>>

\* while (!done): start the next iteration (its locals are fresh) or leave
\* the loop.
While ==
    /\ At("while")
    /\ IF WhileCond(done)
       THEN /\ frame < MaxFrames
            /\ frame' = frame + 1
            /\ it' = EmptyIt
            /\ img_index' = 0
            /\ sem' = [s \in DOMAIN sem |-> SemNextIteration(sem[s])]
            /\ pc' = pc + 1
       ELSE /\ pc' = BodyEnd(Cur.loop) + 1
            /\ UNCHANGED <<frame, it, img_index, sem>>
    /\ UNCHANGED <<prog, query, listed, attachments, uploaded, i, status, exit_code, last, r, evals, log, host, sel, objs, vecs,
                   gpu, done, event, polled, after_done>>

\* while (SDL_PollEvent(&event)) { three ifs }: one event is handled, or
\* there is none and the inner loop ends; event, a local of the loop body, is
\* not read again.
Poll ==
    /\ At("poll")
    /\ Returned("void")
    /\ \/ /\ polled < MaxEvents
          /\ \E e \in Events :
               /\ event' = e
               /\ done' = HandleEvent(done, e, window)
          /\ polled' = polled + 1
          /\ UNCHANGED <<pc, i, status, exit_code>>
       \/ /\ Continue
          /\ event' = NoEvent
          /\ UNCHANGED <<done, polled>>
    /\ UNCHANGED <<prog, query, listed, sem, attachments, uploaded, host, sel, objs, vecs, gpu, frame, img_index, it, after_done>>

\* uint32_t img_index = 0; CHECK_VULKAN(vkAcquireNextImageKHR(...)): the call
\* acquires an image, writes its index and queues the semaphore signal
\* whenever it returns a success code; the macro then throws on every result
\* but VK_SUCCESS.
Acquire ==
    /\ At("acquire")
    /\ \E res \in ResultsOf(Cur.fn) :
        /\ Returned(res)
        /\ IF AcquiresImage(res)
           THEN /\ \E k \in AcquirableImages :
                     /\ img_index' = k
                     /\ it' = [it EXCEPT !.acq = Append(@, k)]
                /\ sem' = [sem EXCEPT !.img_avail_semaphore = SemSignal(@)]
                /\ after_done' = Count("acq")
           ELSE UNCHANGED <<img_index, it, after_done, sem>>
        /\ IF Throws(res) THEN Throw ELSE Continue
    /\ UNCHANGED <<prog, query, listed, attachments, uploaded, host, sel, objs, vecs, gpu, done, event, polled, frame>>

\* CHECK_VULKAN(vkResetFences(vk_device, 1, &vk_fence))
ResetFences ==
    /\ At("resetfences")
    /\ \E res \in ResultsOf(Cur.fn) :
        /\ Returned(res)
        /\ IF Throws(res)
           THEN Throw /\ UNCHANGED fence
           ELSE fence' = "unsignaled" /\ Continue
    /\ UNCHANGED <<prog, query, listed, sem, attachments, uploaded, host, sel, objs, vecs, cmdbuf, pending, awaiting, queue_ops, lvars>>

\* CHECK_VULKAN(vkQueueSubmit(vk_queue, 1, &submit_info, vk_fence)) of the frame.
FrameSubmit ==
    /\ At("framesubmit")
    /\ LET cb == FrameCommandBuffer(img_index) IN
       IF cb >= command_buffers
       THEN Crash /\ UNCHANGED <<cmdbuf, pending, queue_ops, it, after_done, sem>>
       ELSE \E res \in ResultsOf(Cur.fn) :
              /\ Returned(res)
              /\ IF Throws(res)
                 THEN Throw /\ UNCHANGED <<cmdbuf, pending, queue_ops, it, after_done, sem>>
                 ELSE /\ pending' = Append(pending, [cb |-> cb, fence |-> TRUE, step |-> 0,
                                                    copy |-> Copies(cmdbuf[cb + 1].cmds)])
                      /\ cmdbuf' = [cmdbuf EXCEPT ![cb + 1].state = "pending",
                                                ![cb + 1].submits =
                                                   IF cmdbuf[cb + 1].one_time THEN @ + 1 ELSE @]
                      /\ queue_ops' = queue_ops \cup {[op |-> Cur.fn, queue |-> QueueUsed]}
                      /\ it' = [it EXCEPT !.sub = Append(@, cb)]
                      /\ sem' = [sem EXCEPT !.img_avail_semaphore = SemWait(@),
                                            !.render_finished_semaphore = SemSignal(@)]
                      /\ after_done' = Count("sub")
                      /\ Continue
    /\ UNCHANGED <<prog, query, listed, attachments, uploaded, host, sel, objs, vecs, fence, awaiting,
                   done, event, polled, frame, img_index>>

\* CHECK_VULKAN(vkQueuePresentKHR(vk_queue, &present_info)): the request is
\* queued, with its wait on the semaphore, whenever the call returns a success
\* code; the macro then throws on every result but VK_SUCCESS.
Present ==
    /\ At("present")
    /\ \E res \in ResultsOf(Cur.fn) :
        /\ Returned(res)
        /\ IF QueuesPresent(res)
           THEN /\ queue_ops' = queue_ops \cup {[op |-> Cur.fn, queue |-> QueueUsed]}
                /\ it' = [it EXCEPT !.pres = Append(@, PresentedImage(img_index))]
                /\ sem' = [sem EXCEPT !.render_finished_semaphore = SemWait(@)]
                /\ after_done' = Count("pres")
           ELSE UNCHANGED <<queue_ops, it, after_done, sem>>
        /\ IF Throws(res) THEN Throw ELSE Continue
    /\ UNCHANGED <<prog, query, listed, attachments, uploaded, host, sel, objs, vecs, cmdbuf, pending, fence, awaiting,
                   done, event, polled, frame, img_index>>

\* CHECK_VULKAN(vkWaitForFences(..., UINT64_MAX)): returns VK_SUCCESS once
\* the fence is signaled.
WaitFences ==
    /\ At("waitfences")
    /\ \E res \in ResultsOf(Cur.fn) :
        /\ res = "VK_SUCCESS" => fence = "signaled"
        /\ Returned(res)
        /\ IF Throws(res) THEN Throw ELSE Continue
    /\ UNCHANGED <<prog, query, listed, sem, attachments, uploaded, host, sel, objs, vecs, gpu, lvars>>

\* The presentation engine takes up a present request: it executes the
\* request's wait on the render-finished semaphore, once the signal it waits
\* for has happened.  Nothing the host waits on tells it when this is.
PresentEngine ==
    /\ status = "running"
    /\ sem.render_finished_semaphore.wait_pending
    /\ ~sem.render_finished_semaphore.signal_pending
    /\ sem' = [sem EXCEPT !.render_finished_semaphore.wait_pending = FALSE]
    /\ UNCHANGED <<prog, query, listed, attachments, uploaded, ctl, host, sel, objs, vecs, gpu, lvars>>

\* return 0;
Return ==
    /\ At("return")
    /\ status' = "returned"
    /\ exit_code' = 0
    /\ UNCHANGED <<prog, query, listed, sem, attachments, uploaded, pc, i, last, r, evals, log, host, sel, objs, vecs, gpu, lvars>>

Next ==
    \/ GpuComplete \/ PresentEngine
    \/ While \/ Poll \/ Acquire \/ ResetFences \/ FrameSubmit \/ Present \/ WaitFences
    \/ PlainCall \/ VoidCall
    \/ Create \/ Destroy
    \/ Begin \/ Cmd \/ End \/ Submit \/ WaitIdle \/ ResetPool
    \/ For \/ AllocCmdBufs \/ MemType \/ Map \/ Memcpy
    \/ SdlInit \/ SdlCreateWindow \/ SdlGetWindowWMInfo
    \/ CountDevices \/ SelectDevice \/ SelectFamily \/ GetQueue \/ GetImages \/ FillImages
    \/ Return

Spec == Init /\ [][Next]_vars


\* get_memory_type_index on its own: any arguments, then the call.
MemTypeInit ==
    /\ prog = "main"
    /\ \E type_filter \in TypeFilters, props \in PropertyFlags, mem_props \in MemoryProperties :
          query = [type_filter |-> type_filter, props |-> props,
                   mem_props |-> mem_props, result |-> <<>>]
    /\ pc = 1 /\ i = 0 /\ status = "running" /\ exit_code = 0
    /\ last = 0 /\ r = "none" /\ evals = 0 /\ log = <<>>
    /\ window = 0 /\ upload_mapping = FALSE
    /\ device_count = 0
    /\ vk_physical_device = 0
    /\ graphics_queue_index = NoFamily
    /\ device_queues = [queueFamilyIndex |-> NoFamily, queueCount |-> 0]
    /\ vk_queue = NullQueue
    /\ pool_family = NoFamily
    /\ alive = {} /\ created = <<>> /\ destroyed = <<>>
    /\ swapchain_images = <<>> /\ swapchain_image_views = 0
    /\ framebuffers = 0 /\ command_buffers = 0
    /\ cmdbuf = <<>> /\ pending = <<>> /\ fence = "unsignaled"
    /\ awaiting = 0 /\ queue_ops = {}
    /\ listed = NothingListed
    /\ uploaded = NotUploaded(0)
    /\ attachments = [view_image |-> <<>>, fb_view |-> <<>>]
    /\ sem = [img_avail_semaphore |-> IdleSemaphore,
              render_finished_semaphore |-> IdleSemaphore]
    /\ done = FALSE /\ event = NoEvent /\ polled = 0 /\ frame = 0
    /\ img_index = 0 /\ it = EmptyIt
    /\ after_done = [acq |-> 0, sub |-> 0, pres |-> 0]

GetMemoryTypeIndex ==
    /\ query.result = <<>>
    /\ query' = [query EXCEPT !.result =
                    <<get_memory_type_index(query.type_filter, query.props, query.mem_props)>>]
    /\ UNCHANGED <<prog, listed, sem, attachments, uploaded, ctl, host, sel, objs, vecs, gpu, lvars>>

MemTypeSpec == MemTypeInit /\ [][GetMemoryTypeIndex]_vars

\* Device and queue family selection on their own: main.cpp from its start
\* to vkGetDeviceQueue (224), with the lists the driver enumerates kept.
SelectionEnd == Len(MainInstance) + Len(MainDevice) - 1
InSelection == prog = "main" /\ pc <= SelectionEnd

CountListedDevices == QueryDeviceCount(MaxListed)

SelectListedDevice ==
    /\ At("select_device")
    /\ \E res \in ResultsOf(Cur.fn) :
        \E devs \in DeviceVectors(res, device_count) :
            /\ EnumerateAndSelect(res, devs)
            /\ listed' = [listed EXCEPT !.devices = devs, !.stage = "device"]

SelectListedFamily ==
    /\ At("select_family")
    /\ \E fams \in ListedFamilies :
        /\ QueryAndSelectFamily(fams)
        /\ listed' = IF vk_physical_device = 0
                      THEN listed
                      ELSE [listed EXCEPT !.families = fams, !.stage = "family"]

SelectionInit == Init /\ prog = "main"

SelectionNext ==
    \/ InSelection /\ SdlInit
    \/ InSelection /\ SdlCreateWindow
    \/ InSelection /\ SdlGetWindowWMInfo
    \/ InSelection /\ PlainCall
    \/ InSelection /\ Create
    \/ CountListedDevices
    \/ SelectListedDevice
    \/ SelectListedFamily
    \/ InSelection /\ GetQueue

SelectionSpec == SelectionInit /\ [][SelectionNext]_vars

\* The main thread keeps running and the device executes what was submitted
\* to it: a step that stays possible is eventually taken, and a submission
\* on the queue is eventually completed.
FairSpec == Spec /\ WF_vars(Next) /\ WF_vars(GpuComplete)
\* ================================================================= claims

InMain == prog = "main"
\* The frame loop's header and the first call after the loop.
FrameLoopHead == Header(9)
AfterLoop == BodyEnd(9) + 1
\* The host is back at `while (!done)` after a whole iteration.
IterationComplete ==
    InMain /\ status = "running" /\ pc = FrameLoopHead /\ frame >= 1
\* The draw commands recorded in command buffer k.
RenderDraws(k) == SelectSeq(cmdbuf[k + 1].cmds, LAMBDA c : c.op = "vkCmdDraw")

\* C1: every completed iteration of main.cpp's frame loop acquired exactly one
\* swapchain image k, submitted exactly one command buffer, command_buffers[k],
\* whose only draw is vkCmdDraw(3 vertices, 1 instance) inside the render pass
\* recorded for index k, and presented exactly image k once; no iteration
\* acquires, submits or presents twice.
C1_OneTrianglePerFrame ==
    InMain =>
      /\ Len(it.acq) <= 1 /\ Len(it.sub) <= 1 /\ Len(it.pres) <= 1
      /\ it.sub # <<>> => it.sub = it.acq
      /\ it.pres # <<>> => it.pres = it.sub
      /\ IterationComplete =>
           \E k \in 0..(Len(swapchain_images) - 1) :
              /\ it.acq = <<k>> /\ it.sub = <<k>> /\ it.pres = <<k>>
              /\ RenderDraws(k) = <<[op |-> "vkCmdDraw", arg |-> <<3, 1, 0, 0>>, idx |-> k]>>
              /\ Head(cmdbuf[k + 1].cmds).op = "vkCmdBeginRenderPass"
              /\ Head(cmdbuf[k + 1].cmds).idx = k
\* The second iteration completed, and it drew image 1.
C1_Witness == IterationComplete /\ frame = 2 /\ it.pres = <<1>>

\* The events the claim names.
IsExitRequest(e, w) ==
    \/ e.type = "SDL_QUIT"
    \/ e.type = "SDL_KEYDOWN" /\ e.sym = "SDLK_ESCAPE"
    \/ e.type = "SDL_WINDOWEVENT" /\ e.wev = "SDL_WINDOWEVENT_CLOSE" /\ e.windowID = w

\* C2: in both programs a step changes done only by polling an event, polling
\* an event sets done exactly when the event is SDL_QUIT, a key-down of Escape
\* or a close event for the program's own window, any other event leaves it as
\* it was, and done never goes back to false.
C2_DoneIffExitEvent ==
    [][ /\ polled' = polled + 1 => done' = (done \/ IsExitRequest(event', window))
        /\ polled' = polled => done' = done
        /\ done => done' ]_vars
\* A close event for the own window was polled and done is set.
C2_Witness == done /\ event.wev = "SDL_WINDOWEVENT_CLOSE" /\ event.windowID = window

\* C3 as stated: once an exit event has been polled, nothing more is acquired,
\* submitted or presented.
C3_NoFrameAfterExitEvent ==
    InMain => after_done.acq = 0 /\ after_done.sub = 0 /\ after_done.pres = 0
\* C3 as amended: the iteration that polled the exit event still draws its
\* frame: after the event at most one image is acquired, one command buffer
\* submitted and one present issued, and when the loop has been left exactly
\* one of each; no further iteration starts.
C3_OneLastFrame ==
    InMain =>
      /\ after_done.acq <= 1 /\ after_done.sub <= 1 /\ after_done.pres <= 1
      /\ (status = "running" /\ pc >= AfterLoop) =>
            after_done = [acq |-> 1, sub |-> 1, pres |-> 1]
\* Teardown has begun, after a frame drawn with done already true.
C3_Witness == InMain /\ status = "running" /\ pc >= AfterLoop /\ after_done.pres = 1

VkFailures == VkStatusCodes \cup VkErrors

\* C4: no graphics-API call of main.cpp has its failure result ignored: when a
\* call has returned anything but VK_SUCCESS, CHECK_VULKAN has thrown.
C4_NoResultIgnored ==
    (InMain /\ r \in VkFailures) => status = "thrown"

\* C5: after a call wrapped in CHECK_VULKAN the macro has thrown if and only
\* if the result was not VK_SUCCESS (the status codes VK_SUBOPTIMAL_KHR,
\* VK_TIMEOUT, VK_NOT_READY included), and it evaluated the call once.
C5_CheckVulkan ==
    (last # 0 /\ Calls[last].checked) =>
        /\ (status = "thrown") <=> (r # "VK_SUCCESS")
        /\ evals = 1
\* The present returned VK_SUBOPTIMAL_KHR and the macro threw.
C5_Witness ==
    /\ status = "thrown" /\ r = "VK_SUBOPTIMAL_KHR"
    /\ Calls[last].fn = "vkQueuePresentKHR"

\* C6: in both programs a call that fails (SDL, graphics API, memory-type
\* lookup) ends the process by an exception at that call: no failure is
\* followed by a return from main or by the next step.
C6_FailureThrows ==
    r \in VkFailures \cup {"SDL_ERROR", "not_found"} => status = "thrown"

\* C7: when main.cpp returns 0, every object it created has been destroyed
\* exactly once: nothing is left alive and nothing was destroyed twice.
C7_AllDestroyedOnce ==
    (InMain /\ status = "returned" /\ exit_code = 0) =>
        /\ alive = {}
        /\ \A m, n \in 1..Len(destroyed) : destroyed[m].obj = destroyed[n].obj => m = n

\* The destroy calls of the teardown, in the order they were made.
TeardownLog == SelectSeq(destroyed, LAMBDA d : d.line >= TeardownSync[1].line)
Pos(s, x) == CHOOSE k \in 1..Len(s) : s[k] = x
CreatedBefore(a, b) == Pos(created, a) < Pos(created, b)
SyncNames == {"img_avail_semaphore", "render_finished_semaphore", "vk_fence"}
\* The pairs (a created before b) the teardown destroys in creation order.
InCreationOrder(a, b) ==
    \/ a[1] \in SyncNames /\ b[1] \in SyncNames
    \/ /\ a[1] = "vk_swapchain"
       /\ b[1] \in {"swapchain_image_views", "vk_pipeline_layout", "vk_render_pass",
                    "vk_pipeline", "framebuffers"}
    \/ a[1] = "vk_surface" /\ b[1] = "vk_device"
    \/ a[1] = b[1]

\* C8 as stated: of two objects destroyed at teardown, the one created later
\* is destroyed first.
C8_ReverseOrder ==
    InMain =>
      \A m, n \in 1..Len(TeardownLog) :
         CreatedBefore(TeardownLog[m].obj, TeardownLog[n].obj) => n < m
\* C8 as amended: the teardown destroys in reverse creation order except that
\* the two semaphores and the fence go in creation order, the swapchain goes
\* before the image views, pipeline layout, render pass, pipeline and
\* framebuffers created after it, the surface goes before the device, and
\* the framebuffers (and the image views) go in creation order among
\* themselves; in exactly these pairs the object created first is destroyed
\* first.  (Of two objects destroyed one after the other, `first` then `second`:
\* when first is the older one the pair is one of the exceptions, and when it
\* is the younger one the pair is none.)
C8_TeardownOrder ==
    InMain =>
      LET td == TeardownLog
      IN  \A n \in 1..Len(td) : \A m \in 1..(n - 1) :
             LET first == td[m].obj
                 second == td[n].obj
             IN  IF CreatedBefore(first, second)
                 THEN InCreationOrder(first, second)
                 ELSE ~InCreationOrder(second, first)
\* main returned 0 with the whole teardown done: the twelve single objects
\* and the view and the framebuffer of each of the most swapchain images.
C8_Witness ==
    /\ InMain /\ status = "returned" /\ exit_code = 0
    /\ TeardownLog[Len(TeardownLog) - 1].obj[1] = "vk_instance"
    /\ Len(TeardownLog) >= 12 + 2 * MaxImages

OneShotSteps == 1..5
\* C9: in each of the five one-shot steps, from the submit until
\* vkQueueWaitIdle has returned the host makes no other call: while a
\* submitted step has not been waited for, the host's next call is that
\* step's vkQueueWaitIdle (so no pool reset, destroy, handle query or
\* recording comes between).
C9_WaitRightAfterSubmit ==
    (InMain /\ status = "running" /\ awaiting # 0) =>
        /\ awaiting \in OneShotSteps
        /\ Cur.kind = "waitidle"
        /\ Cur.step = awaiting
        /\ Calls[last].kind = "submit"
\* The top-level build is submitted, still on the queue, and the host waits.
C9_Witness == InMain /\ awaiting = 5 /\ pending # <<>> /\ Cur.kind = "waitidle"

\* C10: the device is created with one queue of the selected family; every
\* queue operation (one-shot submits and waits, frame submits, presents) is
\* given queue 0 of that family, and the command pool is created for it.
C10_SingleQueue ==
    InMain =>
      /\ <<"vk_device", 0>> \in Range(created) =>
            device_queues = [queueFamilyIndex |-> graphics_queue_index, queueCount |-> 1]
      /\ \A op \in queue_ops :
            op.queue = [family |-> device_queues.queueFamilyIndex, index |-> 0, null |-> FALSE]
      /\ <<"vk_command_pool", 0>> \in Range(created) =>
            pool_family = device_queues.queueFamilyIndex
\* Submits, waits and presents have all been made, on family 0.
C10_Witness ==
    /\ InMain /\ graphics_queue_index = 0
    /\ {op.op : op \in queue_ops} = {"vkQueueSubmit", "vkQueueWaitIdle", "vkQueuePresentKHR"}
    /\ frame = 2

\* The host is about to make a call that requires the queue to be idle: a
\* submit, a command-pool reset, a fence reset, or the first destroy of the
\* teardown.
NeedsIdleQueue ==
    \/ Cur.kind \in {"submit", "framesubmit", "resetpool", "resetfences"}
    \/ pc = AfterLoop

\* C11: in main.cpp host and GPU never overlap on submitted work: whenever the
\* host is at a queue submit, a command-pool reset, a fence reset or the start
\* of teardown, nothing submitted earlier is still executing; at most one
\* submission is ever in flight; and the fence is unsignaled-and-idle when it
\* is reset (no pending submission signals it).
C11_HostGpuNeverOverlap ==
    (InMain /\ status = "running") =>
        /\ Len(pending) <= 1
        /\ NeedsIdleQueue => pending = <<>>
        /\ Cur.kind = "resetfences" => \A k \in 1..Len(pending) : ~pending[k].fence

\* Where in the current step's history the call fn on obj was made.
Made(fn, obj) == {k \in 1..Len(log) : log[k].fn = fn /\ log[k].obj = obj}
MadeFn(fn) == {k \in 1..Len(log) : log[k].fn = fn}
\* Every call of B was preceded by a call of A.
Precedes(A, B) == \A b \in B : \E a \in A : a < b
\* The build steps and the structure each one builds.
BuildSteps == {3, 5}
Structure(s) == IF s = 3 THEN "blas" ELSE "tlas"
ResultMemory(s) == IF s = 3 THEN "blas_mem" ELSE "tlas_mem"
\* The order C12 states, over the history of build step s.
BuildOrder(s) ==
    LET create == Made("vkCreateAccelerationStructure", Structure(s))
        result == Made("vkAllocateMemory", ResultMemory(s))
        scratch == Made("vkAllocateMemory", "scratch_mem")
        bind == Made("vkBindAccelerationStructureMemory", Structure(s))
        begin == MadeFn("vkBeginCommandBuffer")
        build == {k \in MadeFn("vkCmdBuildAccelerationStructure") :
                     log[k].arg[Len(log[k].arg)] = Structure(s)}
        end == MadeFn("vkEndCommandBuffer")
        submit == MadeFn("vkQueueSubmit")
        wait == MadeFn("vkQueueWaitIdle")
        handle == Made("vkGetAccelerationStructureHandle", Structure(s))
        release == Made("vkDestroyBuffer", "scratch_buffer") \cup Made("vkFreeMemory", "scratch_mem")
    IN  /\ Precedes(create, result) /\ Precedes(create, scratch)
        /\ Precedes(result, bind) /\ Precedes(scratch, bind)
        /\ Precedes(bind, begin)
        /\ \A k \in begin : log[k].arg = <<TRUE>>
        /\ Precedes(begin, build) /\ build = MadeFn("vkCmdBuildAccelerationStructure")
        /\ Precedes(build, end)
        /\ Precedes(end, submit)
        /\ Precedes(submit, wait)
        /\ Precedes(wait, handle)
        /\ Precedes(wait, release)
        /\ \A S \in {create, result, scratch, bind, begin, build, end, submit, wait, handle} :
              Cardinality(S) <= 1

\* C12: in both acceleration-structure builds of main.cpp the calls are made
\* in this order, each once: the structure is created, then its result memory
\* and the scratch memory are allocated, then the result memory is bound to the
\* structure, then the build is recorded into a command buffer begun with the
\* one-time-submit flag, then submitted, then the queue-idle wait is made, and
\* only after the wait are the handle read and the scratch buffer and memory
\* released.
C12_BuildOrder ==
    (InMain /\ log # <<>> /\ log[1].step \in BuildSteps) => BuildOrder(log[1].step)
\* The top-level build has run through to the release of its scratch memory.
C12_Witness ==
    /\ InMain /\ status = "running" /\ log # <<>> /\ log[1].step = 5
    /\ Made("vkFreeMemory", "scratch_mem") # {}
    /\ Made("vkGetAccelerationStructureHandle", "tlas") # {}

\* Objects that do not belong to the device.
NotDeviceOwned == {"vk_instance", "vk_surface", "vk_device", "window"}
\* child was created from parent or refers to it (objects are <<name, index>>).
DependsOn(child, parent) ==
    \/ /\ child[1] = "framebuffers"
       /\ \/ parent[1] = "swapchain_image_views" /\ parent[2] = child[2]
          \/ parent[1] = "vk_render_pass"
    \/ child[1] = "swapchain_image_views" /\ parent[1] = "vk_swapchain"
    \/ child[1] = "vk_pipeline" /\ parent[1] \in {"vk_pipeline_layout", "vk_render_pass"}
    \/ child[1] \notin NotDeviceOwned /\ parent[1] = "vk_device"
    \/ child[1] = "vk_swapchain" /\ parent[1] = "vk_surface"
    \/ child[1] \in {"vk_surface", "vk_device"} /\ parent[1] = "vk_instance"

\* C13: in main.cpp no object has been destroyed while an object created from
\* it or referring to it is still alive (framebuffers before their image view
\* and render pass, image views before the swapchain, the pipeline before its
\* layout and render pass, every device-owned object before the device, the
\* swapchain before the surface, surface and device before the instance).
C13_NoParentDestroyedFirst ==
    InMain =>
      \A k \in 1..Len(destroyed) : \A c \in alive : ~DependsOn(c, destroyed[k].obj)

\* No call has failed and the process has not been killed.
NoFailure ==
    /\ r \notin VkFailures \cup {"SDL_ERROR", "not_found"}
    /\ status \notin {"thrown", "crashed"}
ReturnedZero == status = "returned" /\ exit_code = 0

\* C14: in both programs, if an exit event is eventually polled and no call
\* ever fails, the program eventually returns 0 (having left its loop and run
\* its teardown); once done is set no further iteration of the outer loop
\* starts, so the loop ends with the iteration that polled the event; and the
\* body goes past the inner poll loop only when SDL_PollEvent has reported no
\* pending event.
C14_ExitTerminates ==
    /\ ([]NoFailure /\ <>done) => <>ReturnedZero
    /\ [][done => frame' = frame]_vars
    /\ [][(Cur.kind = "poll" /\ pc' # pc) => event' = NoEvent]_vars
\* main returned 0 after an exit event, with both events of the run polled.
C14_Witness == InMain /\ ReturnedZero /\ done /\ polled = MaxEvents /\ frame = 1

\* The shared command buffer command_buffers[0].
Shared == cmdbuf[1]

\* C15: command_buffers[0] follows a legal lifecycle in main.cpp: whenever the
\* host is at a vkBeginCommandBuffer for it, the buffer is in the initial
\* state (never recorded or reset since); the pool is never reset while the
\* buffer is pending; and a one-time-submit recording is submitted at most
\* once, and exactly once by the time the pool is reset after it.
C15_SharedBufferLifecycle ==
    (InMain /\ status = "running" /\ command_buffers > 0) =>
        /\ (Cur.kind = "begin" /\ CbIndex = 0) => Shared.state = "initial"
        /\ Cur.kind = "resetpool" => Shared.state # "pending"
        /\ Shared.one_time => Shared.submits <= 1
        /\ (Cur.kind = "resetpool" /\ Shared.one_time) => Shared.submits = 1

\* Nothing issued earlier on semaphore s is still outstanding.
Quiet(s) == ~s.signal_pending /\ ~s.wait_pending
\* The per-iteration chain acquire -> render -> present, as counts of the
\* operations issued in the current iteration.
SemaphoreChain ==
    LET ia == sem.img_avail_semaphore
        rf == sem.render_finished_semaphore
    IN  /\ ia.signals = Len(it.acq) /\ ia.waits = Len(it.sub)
        /\ rf.signals = Len(it.sub) /\ rf.waits = Len(it.pres)
        /\ ia.waits <= ia.signals /\ ia.signals <= 1
        /\ rf.waits <= rf.signals /\ rf.signals <= 1
        /\ rf.signals <= ia.signals
        /\ IterationComplete =>
              ia.signals = 1 /\ ia.waits = 1 /\ rf.signals = 1 /\ rf.waits = 1

\* C16: in every iteration of main.cpp's frame loop the acquire signals the
\* image-available semaphore, the submit waits on it and signals the
\* render-finished semaphore and the present waits on that one, each
\* semaphore signalled once and then waited once per iteration; and when a
\* semaphore is about to get its next signal (the acquire for image-available,
\* the submit for render-finished) no signal or wait issued on it in the
\* previous iteration is still outstanding.
C16_SemaphoreChain ==
    (InMain /\ status = "running") =>
        /\ SemaphoreChain
        /\ Cur.kind = "acquire" => Quiet(sem.img_avail_semaphore)
        /\ Cur.kind = "framesubmit" => Quiet(sem.render_finished_semaphore)

\* The call that allocates the command buffers, the last of the four vectors.
AllocIndex == CHOOSE p \in 1..Len(MainCalls) : MainCalls[p].kind = "alloc_cmdbufs"
\* The framebuffer command buffer k begins its render pass on, the view that
\* framebuffer wraps, and the swapchain image that view is of.
FramebufferOf(k) ==
    LET rp == SelectSeq(cmdbuf[k + 1].cmds, LAMBDA c : c.op = "vkCmdBeginRenderPass")
    IN  rp[1].idx
ImageDrawn(k) == attachments.view_image[attachments.fb_view[FramebufferOf(k) + 1] + 1]
\* Every command buffer has its render commands recorded.
RenderRecorded == InMain /\ status = "running" /\ pc > BodyEnd(3)

\* C17: in main.cpp, once the command buffers are allocated there are as many
\* swapchain images as image views, framebuffers and command buffers; view i
\* is of image i and framebuffer i wraps view i; when the render commands are
\* recorded command buffer i renders into framebuffer i; and in the frame loop
\* the acquired index names an existing command buffer, the buffer submitted
\* draws into the acquired image and that image is the one presented.
C17_IndicesLineUp ==
    (InMain /\ status = "running" /\ pc > AllocIndex) =>
        /\ swapchain_image_views = Len(swapchain_images)
        /\ framebuffers = Len(swapchain_images)
        /\ command_buffers = Len(swapchain_images)
        /\ \A k \in 0..(Len(swapchain_images) - 1) :
              /\ attachments.view_image[k + 1] = ImageHandle(k)
              /\ attachments.fb_view[k + 1] = k
        /\ RenderRecorded =>
              \A k \in 0..(Len(swapchain_images) - 1) :
                  FramebufferOf(k) = k /\ ImageDrawn(k) = ImageHandle(k)
        /\ Cur.kind = "framesubmit" => img_index < command_buffers
        /\ it.sub # <<>> => ImageDrawn(it.sub[1]) = ImageHandle(it.acq[1])
        /\ it.pres # <<>> => ImageHandle(it.pres[1]) = ImageDrawn(it.sub[1])

\* One-shot step s is no longer on the queue.
Completed(s) == \A k \in 1..Len(pending) : pending[k].step # s
\* The host has gone past the call fn on obj (and the call did not throw).
Passed(fn, obj) == \E p \in 1..(pc - 1) : Calls[p].fn = fn /\ Calls[p].obj = obj
\* The host is at the submit of step s.
AtSubmitOf(s) == Cur.kind = "submit" /\ Cur.step = s
\* The host is at the write of the instance record (memset and the field
\* assignments, blas_handle among them) through the mapping.
AtInstanceWrite == Cur.kind = "memcpy" /\ Cur.step = 4

\* C18: in main.cpp the vertex and index uploads have completed on the GPU
\* when the bottom-level build is submitted; the bottom-level build has
\* completed and its handle has been read when the handle is written into the
\* instance record; and the instance upload has completed when the top-level
\* build is submitted.
C18_DataDependencies ==
    (InMain /\ status = "running") =>
        /\ AtSubmitOf(3) => Completed(1) /\ Completed(2)
        /\ AtInstanceWrite =>
              Completed(3) /\ Passed("vkGetAccelerationStructureHandle", "blas")
        /\ AtSubmitOf(5) => Completed(4)


\* The staged uploads and, for each, the host data and the size the
\* specification states for it: 9 floats, 3 uint32_t, one instance record.
UploadSteps == {1, 2, 4}
HostData(s) ==
    CASE s = 1 -> "triangle_verts"
      [] s = 2 -> "triangle_indices"
      [] OTHER -> "instance"
StatedSize(s) ==
    CASE s = 1 -> 9 * 4
      [] s = 2 -> 3 * 4
      [] OTHER -> SizeofGeometryInstance
\* The host is in upload step s, with the calls made so far in log.
InUpload(s) == log # <<>> /\ log[1].step = s
HostWrites == MadeFn("memcpy") \cup MadeFn("memset")

\* C19: in each staged upload of main.cpp (vertices, indices, instance) the
\* sizes of the two buffers, of the mapped range, of the bytes the host writes
\* and of the copy all equal the size of the host data (9 floats, 3 uint32_t,
\* one instance record); the host has written the staging memory before the
\* copy is submitted; and once vkQueueWaitIdle has returned the destination
\* buffer holds exactly the host data.
C19_StagedUploads ==
    \A s \in UploadSteps :
        InUpload(s) =>
            /\ \A k \in 1..Len(log) :
                  /\ log[k].fn \in {"vkCreateBuffer", "vkMapMemory"}
                        => log[k].arg = <<StatedSize(s)>>
                  /\ log[k].fn \in {"memcpy", "memset"}
                        => log[k].arg = <<HostData(s), StatedSize(s)>>
                  /\ log[k].fn = "vkCmdCopyBuffer" => log[k].arg[3] = StatedSize(s)
            /\ Precedes(HostWrites, MadeFn("vkQueueSubmit"))
            /\ MadeFn("vkQueueWaitIdle") # {}
                  => uploaded = [step |-> s, holds |-> <<HostData(s), StatedSize(s)>>]
\* A wait of an upload has returned although the copy has not run: the
\* destination does not hold the data.
C19_WaitReturnedEarly ==
    \E s \in UploadSteps :
        /\ InUpload(s)
        /\ MadeFn("vkQueueWaitIdle") # {}
        /\ uploaded = NotUploaded(s)

\* The bits set in x.
Bits(x) == {n \in 0..x : (x \div (2 ^ n)) % 2 = 1}
\* The indices the specification allows get_memory_type_index to return for
\* the arguments in query: below memoryTypeCount, bit set in type_filter,
\* every requested property bit among the type's propertyFlags.
Suitable ==
    {n \in 0..(query.mem_props.memoryTypeCount - 1) :
        /\ n \in Bits(query.type_filter)
        /\ Bits(query.props) \subseteq Bits(query.mem_props.memoryTypes[n + 1].propertyFlags)}

\* C20: get_memory_type_index returns the smallest index i below
\* memoryTypeCount whose bit is set in type_filter and whose propertyFlags
\* contain every requested bit; it throws std::runtime_error exactly when
\* there is no such index; it never returns an index >= memoryTypeCount.
C20_MemoryTypeIndex ==
    query.result # <<>> =>
        LET res == query.result[1] IN
        /\ res.threw <=> Suitable = {}
        /\ res.threw => res.what = "failed to find appropriate memory"
        /\ ~res.threw =>
              /\ res.value \in Suitable
              /\ \A n \in Suitable : res.value <= n
              /\ res.value < query.mem_props.memoryTypeCount
\* The call returned an index other than 0, having skipped type 0, which has
\* the properties but not its filter bit, and left aside a matching entry
\* past memoryTypeCount.
C20_Witness ==
    /\ query.result # <<>>
    /\ ~query.result[1].threw
    /\ query.result[1].value > 0
    /\ query.props # 0
    /\ 0 \notin Bits(query.type_filter)
    /\ Bits(query.props) \subseteq Bits(query.mem_props.memoryTypes[1].propertyFlags)
    /\ query.mem_props.memoryTypeCount < MaxMemoryTypes
    /\ MaxMemoryTypes - 1 \in Bits(query.type_filter)
    /\ Bits(query.props) \subseteq
          Bits(query.mem_props.memoryTypes[MaxMemoryTypes].propertyFlags)
\* The call threw although entries past memoryTypeCount would have matched.
C20_Throws ==
    /\ query.result # <<>>
    /\ query.result[1].threw
    /\ query.type_filter = Bit(MaxMemoryTypes) - 1
    /\ query.mem_props.memoryTypeCount > 0

\* The positions of the devices of one type in the enumerated list, and the
\* first of a non-empty set of positions.
ListedOfType(t) == {k \in 1..Len(listed.devices) : listed.devices[k] = t}
First(S) == CHOOSE k \in S : \A m \in S : k <= m
\* The selection loop has run on listed.devices.
DeviceSelected == listed.stage \in {"device", "family"}

\* C21: for every list of enumerated devices, main.cpp selects the first
\* discrete GPU in enumeration order if there is one, otherwise the first
\* integrated GPU; if the list has neither (or is empty) the handle stays null;
\* and the selection itself raises no error: the program is still running
\* when the selection is over.
C21_DeviceSelection ==
    /\ [](DeviceSelected =>
            vk_physical_device =
               IF ListedOfType("DISCRETE_GPU") # {}
               THEN First(ListedOfType("DISCRETE_GPU"))
               ELSE IF ListedOfType("INTEGRATED_GPU") # {}
                    THEN First(ListedOfType("INTEGRATED_GPU"))
                    ELSE 0)
    /\ [][~DeviceSelected /\ DeviceSelected'
            => status' = "running" /\ exit_code' = exit_code]_vars

\* The positions of the enumerated families that support both presentation
\* to the surface and graphics, and the last of a non-empty set of positions.
PresentAndGraphics ==
    {k \in 1..Len(listed.families) :
        listed.families[k].present /\ listed.families[k].graphics}
Last(S) == CHOOSE k \in S : \A m \in S : k >= m
\* The family loop has run on listed.families.
FamilySelected == listed.stage = "family"

C22_NoneSelected ==
    /\ FamilySelected
    /\ listed.families # <<>>
    /\ graphics_queue_index = NoFamily

\* The calls that are given the selected device or the selected family index.
UsesSelection == {"vkCreateDevice", "vkGetDeviceQueue", "vkCreateCommandPool"}
\* The host is about to make one of them.
AtUseOfSelection == status = "running" /\ pc \in 1..Len(Calls) /\ Cur.fn \in UsesSelection

\* C23: whenever main.cpp calls vkCreateDevice, vkGetDeviceQueue or
\* vkCreateCommandPool the physical device is not null and
\* graphics_queue_index is below the number of queue families of that device,
\* whatever devices and families were enumerated.
C23_ValidSelectionUsed ==
    AtUseOfSelection =>
        /\ vk_physical_device # 0
        /\ U32Less(graphics_queue_index, Len(listed.families))

\* The host, running main.cpp, is about to make the call at pc.
AboutToCall == InMain /\ status = "running" /\ pc \in 1..Len(Calls)
\* The handles destroyed or freed so far.
Destroyed == {destroyed[k].obj : k \in 1..Len(destroyed)}
\* The staging and scratch objects of the one-shot steps.
Temporary == {"upload_buffer", "upload_mem", "scratch_buffer", "scratch_mem"}
\* Shader modules are destroyed only once the pipeline has been created.
ShadersOutlivePipelineCreation ==
    Cur.fn = "vkDestroyShaderModule" => <<"vk_pipeline", 0>> \in Range(created)
\* A staging or scratch object is released only once the work of its step
\* has completed on the GPU.
ReleasedAfterWork ==
    (Cur.kind = "destroy" /\ Cur.obj \in Temporary) => Completed(Cur.step)
\* The call about to be made names no handle that was destroyed.
NamesNoDestroyed == Cur.obj # "" => Obj \notin Destroyed
\* During teardown nothing submitted is still executing, and no semaphore is
\* destroyed while an operation on it is outstanding.
TeardownAfterWork ==
    (pc >= AfterLoop /\ Cur.kind = "destroy") =>
        /\ pending = <<>>
        /\ Cur.obj \in DOMAIN sem =>
              ~sem[Cur.obj].signal_pending /\ ~sem[Cur.obj].wait_pending

\* C24: in main.cpp no handle is used after it has been destroyed or freed:
\* the shader modules are destroyed only after the pipeline has been created;
\* every staging or scratch buffer and its memory are released only after the
\* GPU work that reads or writes them has completed; and no later call, the
\* commands executing in the frame loop and the teardown calls included,
\* refers to a handle already destroyed.
C24_NoUseAfterDestroy ==
    AboutToCall =>
        /\ ShadersOutlivePipelineCreation
        /\ ReleasedAfterWork
        /\ NamesNoDestroyed
        /\ TeardownAfterWork

\* The calls of main.cpp's frame loop, its header included.
FrameLoopCalls == {p \in 1..Len(MainCalls) : MainCalls[p].loop = 9}
\* The host is inside the frame loop of main.cpp.
InsideFrameLoop ==
    InMain /\ status = "running" /\ pc \in FrameLoopCalls
\* What each command buffer has recorded, whatever state it is in.
Recordings == [k \in DOMAIN cmdbuf |-> [cmds |-> cmdbuf[k].cmds, one_time |-> cmdbuf[k].one_time]]
\* Everything that is not synchronisation state: the objects that exist, the
\* vectors of handles, what views and framebuffers refer to, the recordings
\* and the contents of the uploaded buffers.
Resources == <<objs, vecs, attachments, Recordings, uploaded, sel>>
\* The kinds of call that record or reset a command buffer, reset the pool,
\* or create, write or destroy an object.
ChangesResources ==
    {"begin", "cmd", "end", "resetpool", "create", "alloc_cmdbufs", "destroy",
     "bind", "map", "memcpy", "submit"}
\* The device completes a submission of one of the one-shot steps, made
\* before the frame loop.
EarlierWorkCompletes ==
    pending # <<>> /\ Head(pending).step # 0 /\ pending' = Tail(pending)
\* The four commands of one render recording.
RenderCommands ==
    <<"vkCmdBeginRenderPass", "vkCmdBindPipeline", "vkCmdDraw", "vkCmdEndRenderPass">>
\* Where main.cpp records the render command buffers, and where it resets the pool.
RenderBegins == {p \in 1..Len(MainCalls) : MainCalls[p].kind = "begin" /\ MainCalls[p].loop = 3}
PoolResets == {p \in 1..Len(MainCalls) : MainCalls[p].kind = "resetpool"}

\* C25: the frame loop of main.cpp changes nothing but synchronisation state.
\* The render command buffers are recorded by one loop that comes after the
\* last command-pool reset and before the frame loop; inside the frame loop
\* every command buffer holds exactly that one recording, no step records or
\* resets a command buffer or resets the pool, and no step of the host or of
\* the work the loop submits creates, changes or destroys an object, a
\* recording or the contents of a buffer.
C25_FrameLoopKeepsResources ==
    /\ \A b \in RenderBegins :
          /\ \A p \in FrameLoopCalls : b < p
          /\ \A p \in PoolResets : p < b
    /\ \A p \in FrameLoopCalls : MainCalls[p].kind \notin ChangesResources
    /\ [](InsideFrameLoop =>
            \A k \in DOMAIN cmdbuf :
                /\ cmdbuf[k].state \in {"executable", "pending"}
                /\ ~cmdbuf[k].one_time
                /\ [n \in 1..Len(cmdbuf[k].cmds) |-> cmdbuf[k].cmds[n].op] = RenderCommands)
    /\ [][InsideFrameLoop /\ ~EarlierWorkCompletes =>
            /\ Resources' = Resources
            /\ \A k \in DOMAIN cmdbuf :
                  cmdbuf'[k].state \in {"executable", "pending"}]_vars
\* In the second iteration the loop has submitted command buffer 1 and the
\* device is still executing it.
C25_Witness ==
    /\ InsideFrameLoop /\ frame = 2
    /\ it.sub = <<1>>
    /\ cmdbuf[2].state = "pending"
    /\ pending # <<>> /\ Head(pending).step = 0
=============================================================================
